---- MODULE Spec2Model ----
(***************************************************************************)
(* State-machine model of the HEOS integration driver                      *)
(* (src/uc_intg_heos/driver.py with config.py, setup.py, coordinator.py,   *)
(* media_player.py, remote.py).                                            *)
(*                                                                         *)
(* The driver runs on one asyncio event loop.  A step of the model is the  *)
(* code one task runs between two suspension points (an await that really  *)
(* yields: network I/O of the protocol client, a contended lock).          *)
(* The tasks are the start-up pre-warm task and the host platform's        *)
(* connect, subscribe-entities and setup handlers.                         *)
(***************************************************************************)
EXTENDS Integers, Sequences, FiniteSets, TLC

(***************************************************************************)
(* Bounds of the model.                                                    *)
(***************************************************************************)
\* Number of players the account may hold (player ids 1..NumPlayers).
NumPlayers == 2
\* Number of initialization attempts (coordinators created) explored.
MaxAttempts == 2
\* Longest entity-id list of one subscribe request.
MaxSubIds == 1
\* Number of account-data loads of one coordinator explored.
MaxLoads == 2
\* asyncio.sleep(2.0) of the debounced re-sync (coordinator.py:272), in
\* ticks of the model's clock (one tick is one second).
DebounceDelay == 2
\* Number of events of one burst that are counted.
MaxBurst == 3
\* Number of commands the entities accept in one behaviour.
MaxCommands == 2
\* Number of entity callbacks that may register with a coordinator.
MaxCallbacks == 3
\* Number of probe sessions of the setup wizard that are counted.
MaxProbes == 2
\* Number of favorites the account may hold.
MaxFavorites == 11
\* The throttle of HeosRemote.handle_cmd: 0.5 s (remote.py:430), in ticks of
\* a quarter of a second.
ThrottleTicks == 2

(***************************************************************************)
(* Players and entity identifiers.                                         *)
(***************************************************************************)
AllPlayers == 1..NumPlayers

\* Device names of the players, as the account reports them (characters).
PlayerName(p) ==
    CASE p = 1 -> <<"D", "e", "n">>
      [] p = 2 -> <<"A", " ", "b">>
      [] p = 3 -> <<"a", "-", "b">>
      [] p = 4 -> <<"D", "e", "n", " ", "r", "e", "m", "o", "t", "e">>
      [] OTHER -> <<"P", "_">> \o [i \in 1..p |-> "x"]

\* str.lower() on one character.
LowerChar(c) ==
    CASE c = "A" -> "a"
      [] c = "D" -> "d"
      [] c = "P" -> "p"
      [] OTHER -> c

\* name.lower().replace(' ', '_').replace('-', '_')
NormalizeName(name) ==
    [i \in 1..Len(name) |->
        LET c == LowerChar(name[i])
        IN  IF c = " " \/ c = "-" THEN "_" ELSE c]

HeosPrefix == <<"h", "e", "o", "s", "_">>
RemoteSuffix == <<"_", "r", "e", "m", "o", "t", "e">>

\* HeosMediaPlayer.__init__: entity_id = f"heos_{normalised name}"
MediaPlayerIdOf(name) == HeosPrefix \o NormalizeName(name)

MediaPlayerId(p) == MediaPlayerIdOf(PlayerName(p))

\* HeosRemote.__init__: entity_id = f"heos_{normalised name}_remote"
RemoteIdOf(name) == HeosPrefix \o NormalizeName(name) \o RemoteSuffix

RemoteId(p) == RemoteIdOf(PlayerName(p))

\* An entity object: its kind, the player it was built for and the
\* initialization attempt (coordinator generation) that built it.
Entity(kind, p, g) == [kind |-> kind, pid |-> p, gen |-> g]

EntityId(e) == IF e.kind = "player" THEN MediaPlayerId(e.pid) ELSE RemoteId(e.pid)

AllEntityIds == {MediaPlayerId(p) : p \in AllPlayers} \cup {RemoteId(p) : p \in AllPlayers}

\* The empty dict / entity collection.
Empty == <<>>

\* Entities.add (host integration library): the collection is keyed by
\* entity id; adding an id that is already stored is refused and the
\* stored entity is kept.
EntitiesAdd(coll, e) ==
    IF EntityId(e) \in DOMAIN coll THEN coll ELSE coll @@ (EntityId(e) :> e)

\* dict[key] = value
DictPut(d, k, v) == [x \in (DOMAIN d) \cup {k} |-> IF x = k THEN v ELSE d[x]]

Min(S) == CHOOSE x \in S : \A y \in S : x <= y


(***************************************************************************)
(* Configuration (config.py).                                              *)
(***************************************************************************)
Users == {"u"}
Passwords == {"p"}
Hosts == {"h1"}

\* HeosAccountConfig
Accounts == [username : Users, password : Passwords, host : Hosts]

\* No probe of the setup flow has failed.
NoFailure == [step |-> "", error |-> ""]

\* _account_config is None / the configuration file holds no account
None == [username |-> "", password |-> "", host |-> ""]

(***************************************************************************)
(* Tasks: the pre-warm task of main() and the host platform's handlers.    *)
(***************************************************************************)
Tasks == {"pre", "conn", "sub", "setup"}

\* _initialization_lock is not held
Free == "free"

VARIABLES
    entities_ready,        \* driver._entities_ready
    initialization_lock,   \* holder of driver._initialization_lock, or Free
    config_mem,            \* HeosConfig._account_config (None or an account)
    config_disk,           \* content of heos_config.json (None: no account)
    coordinator,           \* driver._coordinator: 0 (None) or its generation
    sessions,              \* coordinators whose session exists and was not shut down
    media_players,         \* driver._media_players: player id -> entity
    remotes,               \* driver._remotes: player id -> entity
    available_entities,    \* api.available_entities: entity id -> entity
    configured_entities,   \* api.configured_entities: entity id -> entity
    device_state,          \* device state last reported to the host platform
    setup_state,           \* HeosSetupManager._setup_state
    setup_acct,            \* account entered in the setup flow in progress
    setup_cleared,         \* the setup flow in progress cleared the old configuration
    setup_failure,         \* the probe step that failed and the SetupError chosen
    pc,                    \* where each task is suspended
    att,                   \* record of the latest initialization attempt
    gen,                   \* number of attempts (coordinators created) so far
    cur,                   \* player the attempt in flight is working on (0: none)
    sub_ids,               \* entity ids the subscribe handler has still to serve
    sub_unready,           \* the subscribe handler began its lookups with the flag false
    \* The coordinator in use (coordinator.py), in detail.
    co_connected,          \* HeosCoordinator._is_connected
    co_heos,               \* HeosCoordinator.heos is set (not None)
    co_signed_in,          \* heos.is_signed_in
    co_cache,              \* category -> 0 (empty) or the load that fetched its data
    co_loads,              \* number of account-data loads started so far
    co_lpc,                \* loader -> category whose fetch it awaits, or "idle"
    co_lid,                \* loader -> number of the load it runs
    co_task,               \* state of the task _update_sources_task refers to
    co_timer,              \* ticks left of that task's sleep
    co_since,              \* ticks since the last sources/user-changed event (capped)
    co_burst_syncs,        \* re-syncs started since the current burst of events began
    co_burst_events,       \* events of the current burst (capped at MaxBurst)
    co_notified,           \* entity ids whose callback the last notify_entities ran
    co_host,               \* heos.current_host: the host the session is connected to
    co_down,               \* position of async_shutdown: "no", "disconnecting"
    \* The configuration store in detail (config.py).
    cf_account,            \* HeosConfig._account_config (None: no account)
    cf_configured,         \* HeosConfig._configured
    cf_file,               \* content of the configuration file config.json
    cf_temp,               \* content of the temporary file config.tmp
    cf_pc,                 \* position of _save_config: "idle", "open", "write", "replace"
    cf_old,                \* content of config.json when the current operation began
    cf_op,                 \* the operation called last
    cf_ret,                \* what the operation called last returned
    \* The command handlers of the entities (remote.py, media_player.py).
    en_commands,           \* commands accepted so far
    rm_heos,               \* HeosRemote._heos is set (set_coordinator was called)
    rm_others,             \* the session knows players besides the remote's own
    rm_lock,               \* holder of HeosRemote._command_lock (0: free)
    rm_waiters,            \* callers waiting for the lock, first come first
    rm_pc,                 \* per caller: "idle", "wait_lock", "sleep", "call"
    rm_cmd,                \* per caller: the command being handled
    rm_timer,              \* per caller: ticks left of the throttle sleep
    rm_status,             \* per caller: the status returned last
    rm_calls,              \* per caller: protocol calls issued for the command
    rm_age,                \* per command: ticks since _last_command_time (capped)
    rm_call_age,           \* ticks since the remote issued a protocol call (capped)
    rm_gap,                \* ticks between its last two protocol calls (capped)
    rm_prev_cmd,           \* the command of that protocol call
    rm_inflight,           \* protocol calls of the remote in flight
    rm_attrs,              \* the remote's attribute "state"
    mp_pc,                 \* the media player's handler: "idle", "call", "sleep", "push"
    mp_cmd,                \* the command it handles
    mp_src,                \* the categories that hold the requested source name
    mp_action,             \* the protocol call chosen for the command
    mp_status,             \* the status it returned last
    mp_calls,              \* protocol calls issued for the command
    mp_failed,             \* a protocol call of the command has failed
    mp_attrs,              \* the media player's attribute "state"
    \* The construction of a remote's command list (driver.py:130-316).
    rb_in,                 \* what the coordinator and the session hold
    rb_done,               \* the list has been built
    rb_commands,           \* the simple commands built
    rb_handled,            \* the command handle_cmd got last and its branch
    \* The coordinator's observer list (coordinator.py:51, 162-177).
    nf_callbacks,          \* HeosCoordinator._entity_callbacks, in list order
    nf_done,               \* notify_entities has run since the list last changed
    nf_raising,            \* the callbacks that raised in that run
    nf_log,                \* the callbacks that run invoked, in order
    \* The coordinator's caches and source list by content (coordinator.py:38-42).
    sl_music,              \* _music_sources: the sources fetched, with their flags
    sl_favorites,          \* _favorites: names of the favorites
    sl_inputs,             \* _inputs: names of the input sources
    sl_playlists,          \* _playlists: names of the playlists
    sl_list,               \* _source_list
    sl_signed,             \* heos.is_signed_in
    sl_pc,                 \* the fetch _async_update_sources awaits, or "idle"
    \* The setup wizard on its own (setup.py).
    wz_state,              \* HeosSetupManager._setup_state
    wz_outstanding,        \* the host has a RequestUserInput it has not answered
    wz_pc,                 \* handle_setup: "idle", "probe" (awaiting the probe session)
    wz_acct,               \* the credentials of the probe in progress
    wz_probes,             \* probe sessions opened so far (capped)
    wz_mem,                \* the credentials the configuration holds in memory
    wz_disk,               \* the credentials in the configuration file
    wz_action,             \* the SetupAction returned last
    \* The entities of one attempt, by the device names the account reports.
    nm_names,              \* player id -> player.name
    nm_available,          \* api.available_entities: entity id -> entity
    nm_built,              \* entities constructed so far
    nm_pc,                 \* "players", "remotes" or "done"
    nm_next,               \* the player the loop is at
    nm_cmd,                \* the grouping command sent: remote, target, command
    nm_group               \* the player ids of the set_group call it led to

\* The variables of the driver.
drvVars == <<entities_ready, initialization_lock, config_mem, config_disk,
             coordinator, sessions, media_players, remotes, available_entities,
             configured_entities, device_state, setup_state, setup_acct,
             setup_cleared, setup_failure, pc, att, gen, cur, sub_ids,
             sub_unready>>

\* The variables of the coordinator in detail.
coVars == <<co_connected, co_heos, co_signed_in, co_cache, co_loads, co_lpc,
            co_lid, co_task, co_timer, co_since, co_burst_syncs, co_burst_events,
            co_notified, co_down, co_host>>

\* The variables of the configuration store in detail.
cfVars == <<cf_account, cf_configured, cf_file, cf_temp, cf_pc, cf_old, cf_op,
            cf_ret>>

\* The variables of the entities' command handlers.
enVars == <<en_commands, rm_heos, rm_others, rm_lock, rm_waiters, rm_pc, rm_cmd,
            rm_timer, rm_status, rm_calls, rm_age, rm_call_age, rm_gap, rm_prev_cmd,
            rm_inflight, rm_attrs, mp_pc, mp_cmd, mp_src, mp_action,
            mp_status, mp_calls, mp_failed, mp_attrs>>

\* The variables of the construction of a remote's command list.
rbVars == <<rb_in, rb_done, rb_commands, rb_handled>>

\* The variables of the observer list.
nfVars == <<nf_callbacks, nf_done, nf_raising, nf_log>>

\* The variables of the caches and the source list by content.
slVars == <<sl_music, sl_favorites, sl_inputs, sl_playlists, sl_list,
            sl_signed, sl_pc>>

\* The variables of the setup wizard on its own.
wzVars == <<wz_state, wz_outstanding, wz_pc, wz_acct, wz_probes, wz_mem,
            wz_disk, wz_action>>

\* The variables of the entity naming.
nmVars == <<nm_names, nm_available, nm_built, nm_pc, nm_next, nm_cmd, nm_group>>

vars == <<drvVars, coVars, cfVars, enVars, rbVars, nfVars, slVars, wzVars, nmVars>>

\* The state as one record, so that the handlers can be written as
\* functions from state to state.
S ==
    [ready |-> entities_ready, lock |-> initialization_lock,
     mem |-> config_mem, disk |-> config_disk,
     coord |-> coordinator, sessions |-> sessions,
     mps |-> media_players, rms |-> remotes,
     avail |-> available_entities, conf |-> configured_entities,
     dev |-> device_state, setup_state |-> setup_state,
     setup_acct |-> setup_acct, setup_cleared |-> setup_cleared,
     setup_failure |-> setup_failure, pc |-> pc,
     att |-> att, gen |-> gen, cur |-> cur,
     sub_ids |-> sub_ids, sub_unready |-> sub_unready]

\* The next state is s (evaluated once).
Become(s) ==
    \E r \in {s} :
        /\ entities_ready' = r.ready
        /\ initialization_lock' = r.lock
        /\ config_mem' = r.mem
        /\ config_disk' = r.disk
        /\ coordinator' = r.coord
        /\ sessions' = r.sessions
        /\ media_players' = r.mps
        /\ remotes' = r.rms
        /\ available_entities' = r.avail
        /\ configured_entities' = r.conf
        /\ device_state' = r.dev
        /\ setup_state' = r.setup_state
        /\ setup_acct' = r.setup_acct
        /\ setup_cleared' = r.setup_cleared
        /\ setup_failure' = r.setup_failure
        /\ pc' = r.pc
        /\ att' = r.att
        /\ gen' = r.gen
        /\ cur' = r.cur
        /\ sub_ids' = r.sub_ids
        /\ sub_unready' = r.sub_unready
        /\ UNCHANGED <<coVars, cfVars, enVars, rbVars, nfVars, slVars, wzVars, nmVars>>

\* HeosConfig.is_configured()
IsConfigured(s) == s.mem # None

\* Generation of the attempt in flight or last ended (0: none yet).
Gen(s) == s.gen


(***************************************************************************)
(* driver.on_subscribe_entities: the lookup loop (lines 480-491).          *)
(***************************************************************************)
\* The media player whose id is the requested one: the first match of the
\* loop over _media_players (0: no match).
FindMediaPlayer(s, id) ==
    LET hits == {p \in DOMAIN s.mps : EntityId(s.mps[p]) = id}
    IN  IF hits = {} THEN 0 ELSE Min(hits)

\* Lines 487-491: the remote with the requested id gets push_update, which
\* neither suspends nor changes anything: HeosRemote._api is None
\* (remote.py:53, 412-415).
SubscribeRemote(s, id) == s

\* Lines 480-491 from the head of the remaining ids up to the next call of
\* a media player's push_update, which is awaited (pc "push"), or to the end
\* of the handler.
RECURSIVE SubscribeLoop(_)
SubscribeLoop(s) ==
    IF s.sub_ids = <<>>
    THEN [s EXCEPT !.pc["sub"] = "idle"]
    ELSE IF FindMediaPlayer(s, Head(s.sub_ids)) # 0
         THEN [s EXCEPT !.pc["sub"] = "push"]
         ELSE SubscribeLoop([SubscribeRemote(s, Head(s.sub_ids))
                               EXCEPT !.sub_ids = Tail(@)])

\* The handler reaches line 480: its lookups begin, whatever the flag says.
SubscribeServe(s) ==
    SubscribeLoop([s EXCEPT !.sub_unready = ~s.ready])

(***************************************************************************)
(* driver.on_connect: the device state it reports (lines 449-458).         *)
(***************************************************************************)
OnConnectReport(s) ==
    [s EXCEPT !.pc["conn"] = "idle",
              !.dev = IF IsConfigured(s) /\ s.ready THEN "CONNECTED"
                      ELSE IF ~IsConfigured(s) THEN "DISCONNECTED"
                      ELSE "ERROR"]

(***************************************************************************)
(* What the caller of _initialize_entities does when the call ends, up to  *)
(* its own next suspension point.                                          *)
(***************************************************************************)
\* The call raised.
\*   main.safe_pre_init (lines 536-538): logs a warning.
\*   on_connect (lines 444-447): reports ERROR and returns.
\*   on_subscribe_entities (line 475): no handler, the exception leaves it.
\*   setup_handler (line 510): no handler, the exception leaves it.
CallerOnRaise(s, t) ==
    CASE t = "pre"   -> [s EXCEPT !.pc[t] = "done"]
      [] t = "conn"  -> [s EXCEPT !.pc[t] = "idle", !.dev = "ERROR"]
      [] t = "sub"   -> [s EXCEPT !.pc[t] = "idle", !.sub_ids = <<>>]
      [] t = "setup" -> [s EXCEPT !.pc[t] = "idle"]

\* The call returned.
\*   main.safe_pre_init (line 535): logs.
\*   on_connect: goes on to lines 449-458.
\*   on_subscribe_entities: goes on to the lookup loop, line 480.
\*   setup_handler (line 512): returns the action.
CallerOnReturn(s, t) ==
    CASE t = "pre"   -> [s EXCEPT !.pc[t] = "done"]
      [] t = "conn"  -> OnConnectReport(s)
      [] t = "sub"   -> SubscribeServe(s)
      [] t = "setup" -> [s EXCEPT !.pc[t] = "idle"]


(***************************************************************************)
(* driver._initialize_entities (lines 37-127) and                          *)
(* driver._create_intelligent_remotes (lines 130-167).                     *)
(***************************************************************************)
\* The record kept of an attempt that passed the entry checks.
NewAttempt ==
    [players |-> {}, end |-> "inflight"]

\* No attempt has passed the entry checks yet.
NoAttempt ==
    [players |-> {}, end |-> "none"]

\* The next player of the attempt's enumeration after p (0: p was the last).
\* The players dict is walked in ascending player id.
NextPlayer(s, p) ==
    LET rest == {q \in s.att.players : q > p}
    IN  IF rest = {} THEN 0 ELSE Min(rest)

\* Lines 116-119, the end of the `async with` and the return to the caller.
InitMarkReady(s, t) ==
    CallerOnReturn([s EXCEPT !.ready = TRUE,
                             !.lock = Free,
                             !.cur = 0,
                             !.att.end = "ready"], t)

\* Lines 90-92: no players, the function returns (no exception is raised,
\* the coordinator stays), the lock is released.
InitNoPlayers(s, t) ==
    CallerOnReturn([s EXCEPT !.lock = Free,
                             !.cur = 0,
                             !.att.end = "empty"], t)

\* Lines 121-125: the except clause up to its await of async_shutdown
\* (_coordinator is set: it was assigned at line 59, before anything that
\* can raise).
InitExcept(s, t) ==
    [s EXCEPT !.ready = FALSE, !.cur = 0, !.pc[t] = "shutdown"]

\* Mutant of InitExceptEnd: the lock is not released on the error path.
InitExceptEndKeepLock(s, t) ==
    CallerOnRaise([s EXCEPT !.sessions = @ \ {s.coord},
                            !.coord = 0,
                            !.att.end = "raised"], t)

\* Lines 125-127: async_shutdown returned (coordinator.py:139-160: the
\* session is disconnected and dropped), _coordinator = None, the exception
\* is re-raised through the `async with`, which releases the lock.
InitExceptEnd(s, t) ==
    CallerOnRaise([s EXCEPT !.sessions = @ \ {s.coord},
                            !.coord = 0,
                            !.lock = Free,
                            !.att.end = "raised"], t)

\* Mutant of InitAfterPlayers: the readiness flag is set before the remotes
\* are built.
InitAfterPlayersReadyFirst(s, t) ==
    IF Cardinality(s.att.players) > 1
    THEN [s EXCEPT !.ready = TRUE, !.cur = Min(s.att.players), !.pc[t] = "remote"]
    ELSE InitMarkReady(s, t)

\* Lines 109-117: after the last media player, the remotes if there is more
\* than one player, else straight to the readiness flag.
InitAfterPlayers(s, t) ==
    IF Cardinality(s.att.players) > 1
    THEN [s EXCEPT !.cur = Min(s.att.players), !.pc[t] = "remote"]
    ELSE InitMarkReady(s, t)

\* Lines 103-107 for the player whose initialize() returned, then line 97
\* for the next player: its media player is constructed and initialize() is
\* awaited (pc "player").
InitPlayerRegistered(s, t) ==
    LET e  == Entity("player", s.cur, Gen(s))
        s1 == [s EXCEPT !.mps = DictPut(@, s.cur, e),
                        !.avail = EntitiesAdd(@, e),
                        !.conf = EntitiesAdd(@, e)]
    IN  IF NextPlayer(s, s.cur) # 0
        THEN [s1 EXCEPT !.cur = NextPlayer(s, s.cur)]
        ELSE InitAfterPlayers(s1, t)

\* Lines 100-101 raised for the current player: the except clause.
InitPlayerRaised(s, t) ==
    InitExcept(s, t)

\* Lines 134-167, one iteration of _create_intelligent_remotes.  ok: the
\* remote is built, initialized and registered (lines 139-161).  Not ok:
\* something in lines 139-158 raised; the except clause of line 165 logs it
\* and the loop goes on.  After the last iteration, line 117.
\* (HeosRemote.__init__ as declared at remote.py:23 takes heos_player and
\* device_name only, so the call of lines 148-156, which passes five more
\* keyword arguments, raises TypeError against that declaration; both
\* outcomes are kept.)
InitRemoteStep(s, t, ok) ==
    LET e  == Entity("remote", s.cur, Gen(s))
        s1 == IF ok
              THEN [s EXCEPT !.rms = DictPut(@, s.cur, e),
                             !.avail = EntitiesAdd(@, e),
                             !.conf = EntitiesAdd(@, e)]
              ELSE s
    IN  IF NextPlayer(s, s.cur) # 0
        THEN [s1 EXCEPT !.cur = NextPlayer(s, s.cur)]
        ELSE InitMarkReady(s1, t)

\* Lines 60-98: async_setup returned with the players P enumerated.  The
\* wait loop of lines 68-83 ends at once (the coordinator's caches are never
\* None, coordinator.py:38-42).
InitSetupOk(s, t, P) ==
    LET s1 == [s EXCEPT !.att.players = P]
    IN  IF P = {}
        THEN InitNoPlayers(s1, t)
        ELSE [s1 EXCEPT !.cur = Min(P), !.pc[t] = "player"]

\* Line 60: async_setup raised (coordinator.py:134-137).
InitSetupRaised(s, t) ==
    InitExcept(s, t)

\* Lines 52-60: the entities are cleared, a coordinator is created and its
\* async_setup is awaited (pc "setup").
InitBegin(s, t) ==
    [s EXCEPT !.lock = t,
              !.avail = Empty,
              !.mps = Empty,
              !.rms = Empty,
              !.att = NewAttempt,
              !.gen = @ + 1,
              !.coord = Gen(s) + 1,
              !.sessions = @ \cup {Gen(s) + 1},
              !.pc[t] = "setup"]

\* Mutant of InitEnter: the check of the readiness flag under the lock is
\* missing.
InitEnterSkipReadyCheck(s, t) ==
    IF ~IsConfigured(s)
    THEN CallerOnReturn(s, t)
    ELSE InitBegin(s, t)

\* Mutant of InitEnter: the check of the configuration is missing.
InitEnterSkipConfigCheck(s, t) ==
    IF s.ready
    THEN CallerOnReturn(s, t)
    ELSE InitBegin(s, t)

\* Lines 41-50: the lock is acquired by t; the two entry checks.
InitEnter(s, t) ==
    IF s.ready
    THEN CallerOnReturn(s, t)
    ELSE IF ~IsConfigured(s)
         THEN CallerOnReturn(s, t)
         ELSE InitBegin(s, t)

\* Tasks suspended in the lock's acquire().
Waiters(s) == {t \in Tasks : s.pc[t] = "wait_lock"}

\* `await _initialize_entities()` by task t: asyncio.Lock.acquire does not
\* suspend when the lock is free and nobody waits for it; else t waits.
InitCall(s, t) ==
    IF s.lock = Free /\ Waiters(s) = {}
    THEN InitEnter(s, t)
    ELSE [s EXCEPT !.pc[t] = "wait_lock"]


(***************************************************************************)
(* config.py operations used by the handlers.                              *)
(***************************************************************************)
\* HeosConfig.reload_from_disk (lines 91-96)
ConfigReload(s) == [s EXCEPT !.mem = s.disk]

\* HeosConfig.set_heos_account (lines 98-121) with _save_config (lines
\* 68-89): the account replaces the one in memory; the file is replaced
\* unless writing it failed, which _save_config only logs.
ConfigSetAccount(s, acct, saved) ==
    [s EXCEPT !.mem = acct, !.disk = IF saved THEN acct ELSE @]

\* Mutant of ConfigClear: the file is removed but the account in memory is
\* kept.
ConfigClearKeepMemory(s, unlinked) ==
    [s EXCEPT !.disk = IF unlinked THEN None ELSE @]

\* HeosConfig.clear_configuration (lines 141-159): memory is cleared, then
\* the file is removed unless unlink failed.
ConfigClear(s, unlinked) ==
    [s EXCEPT !.mem = None, !.disk = IF unlinked THEN None ELSE @]

(***************************************************************************)
(* Bounding the exploration: every call of _initialize_entities may start  *)
(* one attempt, and at most MaxAttempts attempts are explored.             *)
(***************************************************************************)
Reserved(s) ==
    Cardinality({t \in Tasks : s.pc[t] \in {"start", "wait_lock", "probe", "cleanup_complete", "cleanup_error"}})

MayCall(s) == Gen(s) + Reserved(s) < MaxAttempts

\* The id lists of a subscribe request.
SubIdLists == UNION {[1..n -> AllEntityIds] : n \in 0..MaxSubIds}


(***************************************************************************)
(* The configuration store (config.py).  A file is absent, holds a         *)
(* complete JSON document, or holds a truncated/partly written one.        *)
(***************************************************************************)
CfUsers == {"u1", "u2"}
CfPasswords == {"p1"}
CfHosts == {"h1", "h2"}
CfAccounts == [username : CfUsers, password : CfPasswords, host : CfHosts]

Absent == [kind |-> "absent", version |-> "", heos_account |-> None]
Partial == [kind |-> "partial", version |-> "", heos_account |-> None]

\* json.dump of config_data (lines 71-82): the version and, for an account,
\* the dictionary of its fields.
Serialize(a) == [kind |-> "json", version |-> "1.0.0", heos_account |-> a]

\* _load_config (lines 46-66): a missing file leaves the store
\* unconfigured; a document that does not parse raises inside the try block
\* and the store is unconfigured; a document with an account configures it.
LoadFile(f) ==
    IF f.kind = "json" /\ f.heos_account # None
    THEN [account |-> f.heos_account, configured |-> TRUE]
    ELSE [account |-> None, configured |-> FALSE]

\* A store that has never been used: no file, nothing in memory.
CfNew ==
    /\ cf_account = None
    /\ cf_configured = FALSE
    /\ cf_file = Absent
    /\ cf_temp = Absent
    /\ cf_pc = "idle"
    /\ cf_old = Absent
    /\ cf_op = "none"
    /\ cf_ret = "None"


(***************************************************************************)
(* The entities' command handlers: HeosRemote.handle_cmd (remote.py) and   *)
(* HeosMediaPlayer._command_handler (media_player.py).                     *)
(***************************************************************************)
\* The tasks of the host platform that send commands to the remote.
Callers == {1, 2}

\* Command identifiers of the remote, one or two of each way handle_cmd
\* treats a command:
\*   PLAY, VOLUME_UP  the call is awaited in handle_cmd (lines 437-483, 509)
\*   INPUT_AUX        _handle_input_commands (526-535); FAVORITE_n and
\*                    LEAVE_GROUP are handled the same way (577-592)
\*   GROUP_WITH_X     _handle_grouping_commands_with_retry (557-575)
\*   SERVICE_X        _handle_service_command (594-597): only logs
\*   NOPE             no branch matches (512-514)
RemoteCommands ==
    {"PLAY", "VOLUME_UP", "INPUT_AUX", "GROUP_WITH_X", "SERVICE_X", "NOPE"}

RemoteKind(cmd) ==
    CASE cmd \in {"PLAY", "VOLUME_UP"} -> "direct"
      [] cmd = "INPUT_AUX" -> "swallow"
      [] cmd = "GROUP_WITH_X" -> "group"
      [] cmd = "SERVICE_X" -> "nocall"
      [] OTHER -> "unknown"

\* How an awaited protocol call ends: it returns, it raises the HeosError
\* "processing previous command", another HeosError, or another exception.
CallOutcomes == {"ok", "busy", "HeosError", "Exception"}

\* Command identifiers of the media player: a transport command, the source
\* selection, and one that no branch matches.
PlayerCommands == {"play", "select_source", "nope"}

\* Whether the requested source name is among the favorites, the inputs,
\* the playlists, and the music sources (and flagged available there).
SourceCaches ==
    [fav : BOOLEAN, inputs : BOOLEAN, playlists : BOOLEAN,
     music : {"absent", "unavailable", "available"}]

NoSource == [fav |-> FALSE, inputs |-> FALSE, playlists |-> FALSE,
             music |-> "absent"]

\* Entities that have handled no command (remote.py:47-64).
EnNew ==
    /\ en_commands = 0
    /\ rm_heos = FALSE
    /\ rm_others = FALSE
    /\ rm_lock = 0
    /\ rm_waiters = <<>>
    /\ rm_pc = [c \in Callers |-> "idle"]
    /\ rm_cmd = [c \in Callers |-> ""]
    /\ rm_timer = [c \in Callers |-> 0]
    /\ rm_status = [c \in Callers |-> ""]
    /\ rm_calls = [c \in Callers |-> 0]
    /\ rm_age = [k \in RemoteCommands |-> ThrottleTicks]
    /\ rm_call_age = ThrottleTicks
    /\ rm_gap = ThrottleTicks
    /\ rm_prev_cmd = ""
    /\ rm_inflight = 0
    /\ rm_attrs = "available"
    /\ mp_pc = "idle"
    /\ mp_cmd = ""
    /\ mp_src = NoSource
    /\ mp_action = ""
    /\ mp_status = ""
    /\ mp_calls = 0
    /\ mp_failed = FALSE
    /\ mp_attrs = "UNKNOWN"


(***************************************************************************)
(* The simple commands of a remote (driver.py:170-316).  A command is a    *)
(* pair of its fixed part and its argument (characters).                   *)
(***************************************************************************)
\* Names of input sources and of music sources, as the account reports them.
InputNames == {<<"A", "u", "x">>, <<"a", "u", "x">>, <<"P", "d", " ", "a">>}
ServiceNames == {<<"A", "b">>, <<"D", " ", "a">>}

\* str.upper() on one character.
UpperChar(c) ==
    CASE c = "a" -> "A"
      [] c = "b" -> "B"
      [] c = "d" -> "D"
      [] c = "e" -> "E"
      [] c = "m" -> "M"
      [] c = "n" -> "N"
      [] c = "o" -> "O"
      [] c = "p" -> "P"
      [] c = "r" -> "R"
      [] c = "t" -> "T"
      [] c = "u" -> "U"
      [] c = "x" -> "X"
      [] OTHER -> c

\* input_source.name.lower().replace(' ', '_') (line 227)
InputKey(name) ==
    [i \in 1..Len(name) |->
        LET c == LowerChar(name[i]) IN IF c = " " THEN "_" ELSE c]

\* name.upper().replace(' ', '_') (lines 275, 303)
UpperName(name) ==
    [i \in 1..Len(name) |->
        LET c == UpperChar(name[i]) IN IF c = " " THEN "_" ELSE c]

\* other_player.name.upper().replace(' ', '_').replace('-', '_') (line 288)
GroupName(name) ==
    [i \in 1..Len(name) |->
        LET c == UpperChar(name[i])
        IN  IF c = " " \/ c = "-" THEN "_" ELSE c]

\* A command without argument.
Cmd(word) == <<word, <<>>>>

\* What capability detection reads: the session's sign-in state, the
\* cached favorites (their number) and playlists (any), the cached inputs
\* and music sources (by name, with the available flag), the players of
\* the account and the player the remote is built for.
BuildInputs ==
    [signed : BOOLEAN, favorites : 0..MaxFavorites, playlists : BOOLEAN,
     inputs : SUBSET InputNames, available : SUBSET ServiceNames,
     unavailable : SUBSET ServiceNames, players : {1..k : k \in AllPlayers},
     self : AllPlayers]

\* No remote is being built.
NoBuild ==
    [signed |-> FALSE, favorites |-> 0, playlists |-> FALSE, inputs |-> {},
     available |-> {}, unavailable |-> {}, players |-> {1}, self |-> 1]

RbNew ==
    /\ rb_in = NoBuild
    /\ rb_done = FALSE
    /\ rb_commands = {}
    /\ rb_handled = <<>>

\* _detect_device_capabilities (lines 170-252).
DetectCapabilities(in) ==
    [inputs |-> {InputKey(n) : n \in in.inputs},
     supports_favorites |-> in.signed,
     favorites_count |-> in.favorites,
     available_services |-> in.available,
     playlists_available |-> in.playlists]

\* Lines 281-291: the grouping commands.
GroupCommands(self, players) ==
    IF Cardinality(players) > 1
    THEN {Cmd("LEAVE_GROUP"), Cmd("GROUP_ALL_SPEAKERS")}
            \cup {<<"GROUP_WITH_", GroupName(PlayerName(q))>> :
                     q \in players \ {self}}
    ELSE {}

\* Lines 259-269 and 312-313: the commands that are always present.
BaseCommands ==
    {Cmd(w) : w \in {"PLAY", "PAUSE", "STOP", "PLAY_PAUSE", "VOLUME_UP",
                     "VOLUME_DOWN", "MUTE_TOGGLE", "NEXT", "PREVIOUS",
                     "REPEAT_OFF", "REPEAT_ALL", "REPEAT_ONE", "SHUFFLE_ON",
                     "SHUFFLE_OFF", "CLEAR_QUEUE", "QUEUE_INFO"}}

\* The decimal digits of 1..12 (f"FAVORITE_{i}").
Digits(i) ==
    LET d == <<"0", "1", "2", "3", "4", "5", "6", "7", "8", "9">>
    IN  IF i < 10 THEN <<d[i + 1]>> ELSE <<d[(i \div 10) + 1], d[(i % 10) + 1]>>

\* Lines 293-299: the favorite commands.
FavoriteCommands(caps) ==
    IF caps.supports_favorites /\ caps.favorites_count > 0
    THEN {<<"FAVORITE_", Digits(i)>> :
             i \in 1..(IF caps.favorites_count < 10
                       THEN caps.favorites_count ELSE 10)}
    ELSE {}

\* HeosRemote.handle_cmd (remote.py:436-506), the branch a command takes: a
\* command is a word and an argument, the string being word + argument. The
\* words compared with == take no argument; the others are the prefixes of
\* startswith, which no argument-free word of the builder begins with.
ExactCommands ==
    {"PLAY", "PAUSE", "STOP", "PLAY_PAUSE", "VOLUME_UP", "VOLUME_DOWN",
     "MUTE_TOGGLE", "NEXT", "PREVIOUS", "REPEAT_OFF", "REPEAT_ALL",
     "REPEAT_ONE", "SHUFFLE_ON", "SHUFFLE_OFF", "GROUP_ALL_SPEAKERS",
     "LEAVE_GROUP", "CLEAR_QUEUE"}

PrefixCommands == {"INPUT_", "GROUP_WITH_", "FAVORITE_", "SERVICE_"}

HandleCmdBranch(c) ==
    IF c[2] = <<>> /\ c[1] \in ExactCommands
    THEN c[1]
    ELSE IF c[1] \in PrefixCommands
         THEN c[1]
         ELSE "NOT_IMPLEMENTED"

\* _build_dynamic_simple_commands (lines 255-316), as the set of the
\* commands in the list.
BuildCommands(self, caps, players) ==
    BaseCommands
       \cup {<<"INPUT_", UpperName(k)>> : k \in caps.inputs}
       \cup GroupCommands(self, players)
       \cup FavoriteCommands(caps)
       \cup {<<"SERVICE_", UpperName(n)>> : n \in caps.available_services}
       \cup (IF caps.playlists_available THEN {Cmd("PLAYLISTS")} ELSE {})

(***************************************************************************)
(* The observer list of the coordinator (coordinator.py:51, 162-177).      *)
(***************************************************************************)
\* The callbacks that may register: one bound method per media player.
CallbackIds == 1..MaxCallbacks

NfNew ==
    /\ nf_callbacks = <<>>
    /\ nf_done = FALSE
    /\ nf_raising = {}
    /\ nf_log = <<>>

\* list.remove: the first occurrence of cb is dropped (line 169).
RECURSIVE ListRemove(_, _)
ListRemove(list, cb) ==
    IF list = <<>>
    THEN <<>>
    ELSE IF Head(list) = cb
         THEN Tail(list)
         ELSE <<Head(list)>> \o ListRemove(Tail(list), cb)

\* Mutant of NotifyEntities: the exception of a callback ends the loop.
RECURSIVE NotifyEntitiesAbort(_, _)
NotifyEntitiesAbort(list, raising) ==
    IF list = <<>>
    THEN <<>>
    ELSE IF Head(list) \in raising
         THEN <<Head(list)>>
         ELSE <<Head(list)>> \o NotifyEntitiesAbort(Tail(list), raising)

\* notify_entities (lines 171-177): the for loop over the list; the
\* callbacks in raising raise, which the except clause logs.  The result is
\* the sequence of the callbacks invoked.
RECURSIVE NotifyEntities(_, _)
NotifyEntities(list, raising) ==
    IF list = <<>>
    THEN <<>>
    ELSE <<Head(list)>> \o NotifyEntities(Tail(list), raising)

(***************************************************************************)
(* The caches and the source list of the coordinator by content            *)
(* (coordinator.py:38-42, 290-368).                                         *)
(***************************************************************************)
\* What the account may return for each category.
MusicData ==
    {<<>>,
     <<[name |-> "Pandora", available |-> TRUE]>>,
     <<[name |-> "Pandora", available |-> TRUE],
       [name |-> "Tidal", available |-> FALSE]>>}
FavoriteData == {<<>>, <<"Jazz">>}
InputData == {<<>>, <<"Aux">>}
PlaylistData == {<<>>, <<"Mix">>}

SlNew ==
    /\ sl_music = <<>>
    /\ sl_favorites = <<>>
    /\ sl_inputs = <<>>
    /\ sl_playlists = <<>>
    /\ sl_list = <<>>
    /\ sl_signed = FALSE
    /\ sl_pc = "idle"

\* Lines 304-310: the names of the sources flagged available.
RECURSIVE AvailableNames(_)
AvailableNames(sources) ==
    IF sources = <<>>
    THEN <<>>
    ELSE (IF Head(sources).available THEN <<Head(sources).name>> ELSE <<>>)
            \o AvailableNames(Tail(sources))

\* The caches, the list and the position of the load as one record.
SL ==
    [music |-> sl_music, favorites |-> sl_favorites, inputs |-> sl_inputs,
     playlists |-> sl_playlists, list |-> sl_list, signed |-> sl_signed,
     pc |-> sl_pc]

\* Lines 292-299: the list is cleared, get_music_sources is awaited.
SlLoadStart(c) == [c EXCEPT !.list = <<>>, !.pc = "music"]

\* Lines 300-317 once get_music_sources ended: the sources are stored and
\* the available names appended; an exception is logged only.
SlAfterMusic(c, ok, data) ==
    IF ok
    THEN [c EXCEPT !.music = data, !.list = @ \o AvailableNames(data)]
    ELSE c

\* Line 320: favorites are fetched only when signed in.
SlToFavorites(c) ==
    IF c.signed THEN [c EXCEPT !.pc = "fav"] ELSE [c EXCEPT !.pc = "inputs"]

\* Lines 321-334 once get_favorites ended.
SlAfterFavorites(c, ok, data) ==
    IF ok
    THEN [c EXCEPT !.favorites = data, !.list = @ \o data, !.pc = "inputs"]
    ELSE [c EXCEPT !.favorites = <<>>, !.pc = "inputs"]

\* Lines 339-349 once get_input_sources ended.
SlAfterInputs(c, ok, data) ==
    IF ok
    THEN [c EXCEPT !.inputs = data, !.list = @ \o data, !.pc = "playlists"]
    ELSE [c EXCEPT !.inputs = <<>>, !.pc = "playlists"]

\* Lines 352-364 once get_playlists ended: the load is over.
SlAfterPlaylists(c, ok, data) ==
    IF ok
    THEN [c EXCEPT !.playlists = data, !.list = @ \o data, !.pc = "idle"]
    ELSE [c EXCEPT !.playlists = <<>>, !.pc = "idle"]

\* HeosSetupManager.__init__ (setup.py:28-36) with an empty configuration.
WzNew ==
    /\ wz_state = "start"
    /\ wz_outstanding = FALSE
    /\ wz_pc = "idle"
    /\ wz_acct = None
    /\ wz_probes = 0
    /\ wz_mem = None
    /\ wz_disk = None
    /\ wz_action = ""

\* No attempt has enumerated players: nothing is named or registered.
NmNew ==
    /\ nm_names = <<>>
    /\ nm_available = <<>>
    /\ nm_built = 0
    /\ nm_pc = "done"
    /\ nm_next = 0
    /\ nm_cmd = <<>>
    /\ nm_group = <<>>

(***************************************************************************)
(* HeosCoordinator.__init__ (coordinator.py:31-54): not connected, no       *)
(* session, empty caches, no debounce task.                                *)
(***************************************************************************)
Categories == {"music", "fav", "inputs", "playlists"}

\* The handlers that load the account data besides async_setup: the
\* reconnect handler and the debounce task.
Loaders == {"reconn", "deb"}

CoNew ==
    /\ co_connected = FALSE
    /\ co_heos = FALSE
    /\ co_signed_in = FALSE
    /\ co_cache = [c \in Categories |-> 0]
    /\ co_loads = 0
    /\ co_lpc = [l \in Loaders |-> "idle"]
    /\ co_lid = [l \in Loaders |-> 0]
    /\ co_task = "none"
    /\ co_timer = 0
    /\ co_since = DebounceDelay
    /\ co_burst_syncs = 0
    /\ co_burst_events = 0
    /\ co_notified = {}
    /\ co_down = "no"
    /\ co_host = ""

(***************************************************************************)
(* Initial state: main() lines 515-553.  The configuration file may or may *)
(* not hold an account; when it does, the pre-warm task is created.        *)
(***************************************************************************)
DrvInit ==
    /\ config_disk \in Accounts \cup {None}
    /\ config_mem = config_disk
    /\ entities_ready = FALSE
    /\ initialization_lock = Free
    /\ coordinator = 0
    /\ sessions = {}
    /\ media_players = Empty
    /\ remotes = Empty
    /\ available_entities = Empty
    /\ configured_entities = Empty
    /\ device_state = "DISCONNECTED"
    /\ setup_state = "start"
    /\ setup_acct = None
    /\ setup_cleared = FALSE
    /\ setup_failure = NoFailure
    /\ pc = [t \in Tasks |->
                IF t = "pre"
                THEN (IF config_disk # None THEN "start" ELSE "done")
                ELSE "idle"]
    /\ att = NoAttempt
    /\ gen = 0
    /\ cur = 0
    /\ sub_ids = <<>>
    /\ sub_unready = FALSE

Init == DrvInit /\ CoNew /\ CfNew /\ EnNew /\ RbNew /\ NfNew /\ SlNew /\ WzNew /\ NmNew

(***************************************************************************)
(* Actions.                                                                *)
(***************************************************************************)
\* The handlers are registered and the host platform is served (lines
\* 543-552) after the pre-warm task, created at line 541, has had its first
\* turn on the event loop.
Serving == pc["pre"] # "start"

\* main.safe_pre_init (lines 532-538) is scheduled and calls
\* _initialize_entities.
PreInit ==
    /\ pc["pre"] = "start"
    /\ Become(InitCall(S, "pre"))

\* A task waiting for the initialization lock gets it.
LockAcquired(t) ==
    /\ pc[t] = "wait_lock"
    /\ initialization_lock = Free
    /\ Become(InitEnter(S, t))

\* The await of HeosCoordinator.async_setup (driver.py:60) ends: it returns
\* with some set of players enumerated, or it raises.
SetupReturns(t) ==
    /\ pc[t] = "setup"
    /\ \E P \in SUBSET AllPlayers : Become(InitSetupOk(S, t, P))

SetupRaises(t) ==
    /\ pc[t] = "setup"
    /\ Become(InitSetupRaised(S, t))

\* The await of HeosMediaPlayer.initialize (driver.py:101) ends.
PlayerInitialized(t) ==
    /\ pc[t] = "player"
    /\ Become(InitPlayerRegistered(S, t))

\* Constructing the media player or its initialize() raised (lines
\* 100-101; media_player.py:156-162 calls push_update, which refreshes the
\* player over the network).
PlayerRaises(t) ==
    /\ pc[t] = "player"
    /\ Become(InitPlayerRaised(S, t))

\* One iteration of _create_intelligent_remotes.
RemoteStep(t) ==
    /\ pc[t] = "remote"
    /\ \E ok \in BOOLEAN : Become(InitRemoteStep(S, t, ok))

\* The await of async_shutdown in the except clause (driver.py:125) ends.
ShutdownReturns(t) ==
    /\ pc[t] = "shutdown"
    /\ Become(InitExceptEnd(S, t))

\* driver.on_connect (lines 427-458).
OnConnect ==
    /\ Serving
    /\ pc["conn"] = "idle"
    /\ LET s1 == ConfigReload(S)
       IN  IF IsConfigured(s1) /\ ~s1.ready
           THEN MayCall(S) /\ Become(InitCall(s1, "conn"))
           ELSE Become(OnConnectReport(s1))

\* driver.on_disconnect (lines 461-464).
OnDisconnect ==
    /\ Serving
    /\ Become([S EXCEPT !.dev = "DISCONNECTED"])

\* driver.on_subscribe_entities (lines 467-491).
OnSubscribe ==
    /\ Serving
    /\ pc["sub"] = "idle"
    /\ \E ids \in SubIdLists :
          LET s1 == [S EXCEPT !.sub_ids = ids, !.sub_unready = FALSE]
          IN  IF ~s1.ready
              THEN IF IsConfigured(s1)
                   THEN MayCall(S) /\ Become(InitCall(s1, "sub"))
                   ELSE Become([s1 EXCEPT !.sub_ids = <<>>])
              ELSE Become(SubscribeServe(s1))

\* The await of a media player's push_update (driver.py:484) ends; the
\* handler goes on with the remotes and the next ids.
SubscribePushed ==
    /\ pc["sub"] = "push"
    /\ Become(SubscribeLoop([SubscribeRemote(S, Head(sub_ids))
                               EXCEPT !.sub_ids = Tail(@)]))


(***************************************************************************)
(* driver.setup_handler (lines 499-512) with HeosSetupManager (setup.py).  *)
(***************************************************************************)
\* Mutant of SetupHandlerEnd: a completed setup resets the readiness flag
\* before it calls _initialize_entities.
SetupHandlerEndResetsReady(s, complete) ==
    IF complete
    THEN InitCall([s EXCEPT !.ready = FALSE], "setup")
    ELSE [s EXCEPT !.pc["setup"] = "idle"]

\* setup_handler lines 508-512 once handle_setup has produced its action.
SetupHandlerEnd(s, complete) ==
    IF complete
    THEN InitCall(s, "setup")
    ELSE [s EXCEPT !.pc["setup"] = "idle"]

\* A DriverSetupRequest: _handle_driver_setup_request (setup.py:63-72),
\* _handle_reconfiguration (74-82), _request_heos_setup (84-129).
SetupRequest ==
    /\ Serving
    /\ pc["setup"] = "idle"
    /\ \E reconfigure \in BOOLEAN, unlinked \in BOOLEAN :
          LET s1 == IF reconfigure /\ IsConfigured(S)
                    THEN ConfigClear(S, unlinked)
                    ELSE S
          IN  Become([s1 EXCEPT !.setup_state = "heos_setup",
                                !.setup_cleared = reconfigure /\ IsConfigured(S)])

\* A UserDataResponse: _handle_user_data_response (setup.py:131-137) and
\* _handle_heos_setup up to its await of connect (139-165).  Outside the
\* "heos_setup" state, or with a field missing, SetupError is returned.
SetupUserData ==
    /\ Serving
    /\ pc["setup"] = "idle"
    /\ \E acct \in Accounts \cup {None} :
          IF setup_state # "heos_setup" \/ acct = None
          THEN Become(SetupHandlerEnd(S, FALSE))
          ELSE /\ MayCall(S)
               /\ Become([S EXCEPT !.setup_acct = acct, !.pc["setup"] = "probe"])

\* The probe succeeds (setup.py:165-194): connected and signed in, the
\* account is saved (line 190), then _cleanup awaits the probe session's
\* disconnect; SetupComplete will be returned.
SetupProbeOk ==
    /\ pc["setup"] = "probe"
    /\ \E saved \in BOOLEAN :
          Become([ConfigSetAccount(S, setup_acct, saved)
                    EXCEPT !.pc["setup"] = "cleanup_complete"])

\* The awaited calls of the probe, in order (setup.py:165, 170, 180).
ProbeSteps == {"connect", "sign_in", "get_players"}

\* How a probe call fails: it raises HeosError, it raises another
\* exception, or (sign_in only) it returns a false value.  The text of an
\* exception is the library's: it may or may not contain one of the words
\* the handler looks for.
ProbeFailures ==
    [step : ProbeSteps, how : {"HeosError", "Exception"}, auth_words : BOOLEAN]
        \cup {[step |-> "sign_in", how |-> "false", auth_words |-> FALSE]}

\* The SetupError chosen for a failed probe (setup.py:172-175, 197-212): a
\* false sign_in gives AUTHORIZATION_ERROR; a HeosError is classified by
\* the words "authentication" / "sign_in" in its text; any other exception
\* gives CONNECTION_REFUSED.
SetupErrorOf(f) ==
    IF f.how = "false"
    THEN "AUTHORIZATION_ERROR"
    ELSE IF f.how = "HeosError" /\ f.auth_words
         THEN "AUTHORIZATION_ERROR"
         ELSE "CONNECTION_REFUSED"

\* The probe fails (setup.py:172-175, 197-212): sign-in rejected or the
\* connection failed; _cleanup is awaited; a SetupError will be returned.
SetupProbeFails ==
    /\ pc["setup"] = "probe"
    /\ \E f \in ProbeFailures :
          Become([S EXCEPT !.pc["setup"] = "cleanup_error",
                           !.setup_failure =
                               [step |-> f.step, error |-> SetupErrorOf(f)]])

\* _cleanup returned (setup.py:214-221); handle_setup returns its action to
\* setup_handler.
SetupCleaned ==
    /\ pc["setup"] \in {"cleanup_complete", "cleanup_error"}
    /\ Become(SetupHandlerEnd([S EXCEPT !.setup_acct = None,
                                        !.setup_cleared = FALSE,
                                        !.setup_failure = NoFailure],
                              pc["setup"] = "cleanup_complete"))

\* An AbortDriverSetup (setup.py:50-53): no probe session exists between
\* requests, so _cleanup does not suspend; SetupComplete is returned.
SetupAbort ==
    /\ Serving
    /\ pc["setup"] = "idle"
    /\ MayCall(S)
    /\ Become(SetupHandlerEnd(S, TRUE))

Next ==
    \/ PreInit
    \/ \E t \in Tasks : LockAcquired(t)
    \/ \E t \in Tasks : SetupReturns(t)
    \/ \E t \in Tasks : SetupRaises(t)
    \/ \E t \in Tasks : PlayerInitialized(t)
    \/ \E t \in Tasks : PlayerRaises(t)
    \/ \E t \in Tasks : RemoteStep(t)
    \/ \E t \in Tasks : ShutdownReturns(t)
    \/ OnConnect
    \/ OnDisconnect
    \/ OnSubscribe
    \/ SubscribePushed
    \/ SetupRequest
    \/ SetupUserData
    \/ SetupProbeOk
    \/ SetupProbeFails
    \/ SetupCleaned
    \/ SetupAbort

Spec == Init /\ [][Next]_vars

(***************************************************************************)
(* The coordinator in use, in detail (coordinator.py): session events,     *)
(* the account-data load, the debounced re-sync and shutdown.  The driver  *)
(* is in the state a successful initialization leaves; its variables are   *)
(* touched only through HeosConfig.update_host.                            *)
(***************************************************************************)
\* Hosts the session may be connected to after a failover.
FailoverHosts == Hosts \cup {"h2"}

\* The coordinator's state as one record (with the configuration it holds
\* a reference to).
CO ==
    [connected |-> co_connected, heos |-> co_heos, signed |-> co_signed_in,
     cache |-> co_cache, loads |-> co_loads, lpc |-> co_lpc, lid |-> co_lid,
     task |-> co_task, timer |-> co_timer, since |-> co_since,
     burst |-> co_burst_syncs, events |-> co_burst_events,
     notified |-> co_notified, down |-> co_down, host |-> co_host,
     mem |-> config_mem, disk |-> config_disk]

\* The next state of the coordinator is c (evaluated once).
CoBecome(c) ==
    \E r \in {c} :
        /\ co_connected' = r.connected
        /\ co_heos' = r.heos
        /\ co_signed_in' = r.signed
        /\ co_cache' = r.cache
        /\ co_loads' = r.loads
        /\ co_lpc' = r.lpc
        /\ co_lid' = r.lid
        /\ co_task' = r.task
        /\ co_timer' = r.timer
        /\ co_since' = r.since
        /\ co_burst_syncs' = r.burst
        /\ co_burst_events' = r.events
        /\ co_notified' = r.notified
        /\ co_down' = r.down
        /\ co_host' = r.host
        /\ config_mem' = r.mem
        /\ config_disk' = r.disk
        /\ UNCHANGED <<entities_ready, initialization_lock, coordinator,
                       sessions, media_players, remotes, available_entities,
                       configured_entities, device_state, setup_state,
                       setup_acct, setup_cleared, setup_failure, pc, att, gen,
                       cur, sub_ids,
                       sub_unready>>
        /\ UNCHANGED <<cfVars, enVars, rbVars, nfVars, slVars, wzVars, nmVars>>

\* The entities that registered a callback with the coordinator in use: the
\* media players it was passed to (media_player.py:116).  HeosRemote never
\* calls add_entity_callback.
Callbacks ==
    {EntityId(media_players[p]) :
        p \in {q \in DOMAIN media_players : media_players[q].gen = coordinator}}

\* notify_entities (lines 171-177): every callback runs; a media player's
\* callback creates a task that recomputes and pushes its attributes
\* (media_player.py:174-176).
CoNotify(c) == [c EXCEPT !.notified = Callbacks]

\* HeosConfig.update_host (config.py:135-139) with _save_config.
ConfigUpdateHost(c, h, saved) ==
    IF c.mem = None
    THEN c
    ELSE [c EXCEPT !.mem.host = h,
                   !.disk = IF saved THEN [c.mem EXCEPT !.host = h] ELSE @]

\* _async_update_sources returns or raises to its caller.  The reconnect
\* handler logs an exception (lines 237-238) and notifies the entities
\* (line 240); the debounce task ends.
CoLoadEnd(c, l) ==
    IF l = "reconn"
    THEN CoNotify([c EXCEPT !.lpc[l] = "idle"])
    ELSE [c EXCEPT !.lpc[l] = "idle", !.task = "finished"]

\* _async_update_sources up to its first await (lines 292-299).
CoLoadStart(c, l) ==
    IF ~c.heos
    THEN CoLoadEnd(c, l)
    ELSE [c EXCEPT !.loads = @ + 1, !.lid[l] = c.loads + 1, !.lpc[l] = "music"]

\* The load goes on to the fetch of category cat (lines 338-362).  Without
\* a session (heos is None after a shutdown) self.heos.get_...() raises
\* inside the try block and the category is cleared at once.
RECURSIVE CoGoTo(_, _, _)
CoGoTo(c, l, cat) ==
    IF cat = "end"
    THEN CoLoadEnd(c, l)
    ELSE IF c.heos
         THEN [c EXCEPT !.lpc[l] = cat]
         ELSE CoGoTo([c EXCEPT !.cache[cat] = 0], l,
                     IF cat = "inputs" THEN "playlists" ELSE "end")

\* Line 320 after the music sources: favorites are fetched only when signed
\* in; self.heos.is_signed_in is read outside any try block, so without a
\* session the load ends with the exception.
CoAfterMusic(c, l) ==
    IF ~c.heos
    THEN CoLoadEnd(c, l)
    ELSE IF c.signed
         THEN [c EXCEPT !.lpc[l] = "fav"]
         ELSE CoGoTo(c, l, "inputs")

\* The awaited fetch of loader l ends: it returned data (ok) or raised.
\*   music sources (lines 298-317): stored on success; on failure the
\*     cache is left as it was.
\*   favorites (321-334), inputs (339-349), playlists (352-362): stored on
\*     success, cleared on failure.
CoFetch(c, l, ok) ==
    LET cat == c.lpc[l]
        k   == c.lid[l]
    IN  CASE cat = "music" ->
               CoAfterMusic(IF ok THEN [c EXCEPT !.cache[cat] = k] ELSE c, l)
          [] cat = "fav" ->
               CoGoTo([c EXCEPT !.cache[cat] = IF ok THEN k ELSE 0], l, "inputs")
          [] cat = "inputs" ->
               CoGoTo([c EXCEPT !.cache[cat] = IF ok THEN k ELSE 0], l, "playlists")
          [] cat = "playlists" ->
               CoGoTo([c EXCEPT !.cache[cat] = IF ok THEN k ELSE 0], l, "end")

\* Task.cancel() on the debounce task if it is not done: a sleeping task
\* ends in its except clause (lines 274-275); a task inside the load gets
\* CancelledError at the fetch it awaits and leaves the caches as they are.
CoCancelTask(c) ==
    IF c.task \in {"sleeping", "syncing"}
    THEN [c EXCEPT !.task = "cancelled", !.lpc["deb"] = "idle"]
    ELSE c

\* The events of the burst so far: an event that finds no timer pending
\* begins a new burst.
CoCountEvent(c) ==
    IF c.task = "sleeping"
    THEN [c EXCEPT !.since = 0,
                   !.events = IF @ < MaxBurst THEN @ + 1 ELSE @]
    ELSE [c EXCEPT !.since = 0, !.events = 1, !.burst = 0]

\* Mutant of CoDebounce: a pending timer is kept and no new task is made.
CoDebounceKeepTimer(c) ==
    IF c.task = "sleeping"
    THEN CoCountEvent(c)
    ELSE [CoCancelTask(CoCountEvent(c))
            EXCEPT !.task = "sleeping", !.timer = DebounceDelay]

\* _debounced_update_sources (lines 262-267): the pending task is cancelled
\* and a new one is created, which sleeps DebounceDelay.
CoDebounce(c) ==
    [CoCancelTask(CoCountEvent(c))
       EXCEPT !.task = "sleeping", !.timer = DebounceDelay]

\* Loads started so far and the one a sleeping debounce task will start.
LoadBudget(c) == c.loads + (IF c.task = "sleeping" THEN 1 ELSE 0)

\* The protocol client delivers events while it has its listeners.
CoListening == co_heos /\ co_down = "no"

\* _async_on_disconnected (lines 218-222).
CoDisconnected ==
    /\ CoListening
    /\ CoBecome(CoNotify([CO EXCEPT !.connected = FALSE]))

\* _async_on_reconnected (lines 224-240) up to the first await of the load.
\* The session has connected to h, its configured host or another one.
\* At most n loads are explored.
CoReconnectedWithin(n) ==
    /\ co_lpc["reconn"] = "idle"
    /\ LoadBudget(CO) < n
    /\ \E h \in FailoverHosts, saved \in BOOLEAN :
          LET c1 == [CO EXCEPT !.connected = TRUE, !.host = h]
              c2 == IF h # (IF c1.mem # None THEN c1.mem.host ELSE "")
                    THEN ConfigUpdateHost(c1, h, saved)
                    ELSE c1
          IN  CoBecome(CoLoadStart(c2, "reconn"))

CoReconnected ==
    /\ CoListening
    /\ CoReconnectedWithin(MaxLoads)

\* Player ids a "players changed" event may report as added or updated:
\* none, a known player, a known player and one the driver has never seen.
ReportedIds == {{}, {1}, {1, NumPlayers + 1}}

\* Mutant of CoOnControllerEvent: reported player ids start a re-sync.
CoOnControllerEventResync(c, kind, ids) ==
    IF kind = "players"
    THEN CoNotify(IF ids # {} THEN CoDebounce(c) ELSE c)
    ELSE CoNotify(CoDebounce(c))

\* _async_on_controller_event (lines 242-252).  For "players changed"
\* _handle_player_update_result (lines 254-260) only logs the ids.
CoOnControllerEvent(c, kind, ids) ==
    IF kind = "players"
    THEN CoNotify(c)
    ELSE CoNotify(CoDebounce(c))

\* The protocol client delivers a controller event; a "user changed" event
\* comes with a sign-in or a sign-out.  At most n loads are explored.
CoControllerEventWithin(kind, ids, n) ==
    /\ kind = "players" \/ ids = {}
    /\ kind = "players" \/ co_task = "sleeping" \/ LoadBudget(CO) < n
    /\ \E signed \in (IF kind = "user" THEN BOOLEAN ELSE {co_signed_in}) :
          CoBecome(CoOnControllerEvent([CO EXCEPT !.signed = signed], kind, ids))

CoControllerEvent(kind, ids) ==
    /\ CoListening
    /\ CoControllerEventWithin(kind, ids, MaxLoads)

\* One tick of the clock: a sleeping task's timer runs down.
CoTick ==
    /\ co_since < DebounceDelay \/ (co_task = "sleeping" /\ co_timer > 0)
    /\ CoBecome([CO EXCEPT !.timer = IF CO.task = "sleeping" /\ @ > 0 THEN @ - 1 ELSE @,
                           !.since = IF @ < DebounceDelay THEN @ + 1 ELSE @])

\* The sleep of the debounce task is over (line 272): the re-sync starts
\* (line 273).
CoTimerFires ==
    /\ co_task = "sleeping"
    /\ co_timer = 0
    /\ CoBecome(CoLoadStart([CO EXCEPT !.task = "syncing",
                                       !.burst = IF @ < 2 THEN @ + 1 ELSE @],
                            "deb"))

\* The fetch a loader awaits ends.
CoFetchEnds(l, ok) ==
    /\ co_lpc[l] # "idle"
    /\ CoBecome(CoFetch(CO, l, ok))

\* async_shutdown lines 139-160 once the session is disconnected.
CoShutdownDone(c) ==
    [c EXCEPT !.connected = FALSE, !.heos = FALSE, !.down = "no"]

\* async_shutdown (lines 139-155): the pending debounce task is cancelled,
\* the listeners are removed and the session's disconnect is awaited; with
\* no session the function completes at once.
CoShutdownBegin ==
    /\ co_down = "no"
    /\ LET c1 == CoCancelTask(CO)
       IN  IF c1.heos
           THEN CoBecome([c1 EXCEPT !.down = "disconnecting"])
           ELSE CoBecome(CoShutdownDone(c1))

\* The session's disconnect returned or raised (lines 155-160).
CoShutdownEnds ==
    /\ co_down = "disconnecting"
    /\ CoBecome(CoShutdownDone(CO))

\* The entities of players P, with remotes for R, registered by attempt g
\* (driver.py:97-107, 159-161).
RECURSIVE RegisterAll(_, _, _, _)
RegisterAll(coll, kind, P, g) ==
    IF P = {}
    THEN coll
    ELSE RegisterAll(EntitiesAdd(coll, Entity(kind, Min(P), g)), kind,
                     P \ {Min(P)}, g)

\* The state a successful first initialization leaves (driver.py:117), with
\* the coordinator connected and its first load done.
CoInit ==
    \E k \in AllPlayers, acct \in Accounts :
      \E R \in (IF k > 1 THEN {{}, 1..k} ELSE {{}}) :
        /\ config_mem = acct
        /\ config_disk = acct
        /\ entities_ready = TRUE
        /\ initialization_lock = Free
        /\ coordinator = 1
        /\ sessions = {1}
        /\ media_players = [p \in 1..k |-> Entity("player", p, 1)]
        /\ remotes = [p \in R |-> Entity("remote", p, 1)]
        /\ available_entities =
              RegisterAll(RegisterAll(Empty, "player", 1..k, 1), "remote", R, 1)
        /\ configured_entities = available_entities
        /\ device_state = "DISCONNECTED"
        /\ setup_state = "start"
        /\ setup_acct = None
        /\ setup_cleared = FALSE
        /\ setup_failure = NoFailure
        /\ pc = [t \in Tasks |-> IF t = "pre" THEN "done" ELSE "idle"]
        /\ att = [players |-> 1..k, end |-> "ready"]
        /\ gen = 1
        /\ cur = 0
        /\ sub_ids = <<>>
        /\ sub_unready = FALSE
        /\ co_connected = TRUE
        /\ co_heos = TRUE
        /\ co_signed_in \in BOOLEAN
        /\ co_cache = [c \in Categories |->
                         IF c = "fav" /\ ~co_signed_in THEN 0 ELSE 1]
        /\ co_loads = 1
        /\ co_lpc = [l \in Loaders |-> "idle"]
        /\ co_lid = [l \in Loaders |-> 0]
        /\ co_task = "none"
        /\ co_timer = 0
        /\ co_since = DebounceDelay
        /\ co_burst_syncs = 0
        /\ co_burst_events = 0
        /\ co_notified = {}
        /\ co_down = "no"
        /\ co_host = acct.host
        /\ CfNew
        /\ EnNew
        /\ RbNew
        /\ NfNew
        /\ SlNew
        /\ WzNew
        /\ NmNew

CoNext ==
    \/ CoDisconnected
    \/ CoReconnected
    \/ \E kind \in {"players", "sources", "user"}, ids \in ReportedIds :
          CoControllerEvent(kind, ids)
    \/ CoTick
    \/ CoTimerFires
    \/ \E l \in Loaders, ok \in BOOLEAN : CoFetchEnds(l, ok)
    \/ CoShutdownBegin
    \/ CoShutdownEnds

CoordSpec == CoInit /\ [][CoNext]_vars

\* The same coordinator with one load more explored, so that a load of the
\* reconnect handler and a debounced re-sync can meet.
RsReconnected ==
    /\ CoListening
    /\ CoReconnectedWithin(MaxLoads + 1)

RsControllerEvent(kind) ==
    /\ CoListening
    /\ CoControllerEventWithin(kind, {}, MaxLoads + 1)

RsNext ==
    \/ CoDisconnected
    \/ RsReconnected
    \/ \E kind \in {"players", "sources", "user"} : RsControllerEvent(kind)
    \/ CoTick
    \/ CoTimerFires
    \/ \E l \in Loaders, ok \in BOOLEAN : CoFetchEnds(l, ok)
    \/ CoShutdownBegin
    \/ CoShutdownEnds

ResyncSpec == CoInit /\ [][RsNext]_vars

(***************************************************************************)
(* The configuration store in detail (config.py): the operations of        *)
(* HeosConfig, the steps of _save_config, and a restart of the process at  *)
(* any point.                                                              *)
(***************************************************************************)
\* The store's state as one record.
CF ==
    [account |-> cf_account, configured |-> cf_configured, file |-> cf_file,
     temp |-> cf_temp, pc |-> cf_pc, old |-> cf_old, op |-> cf_op,
     ret |-> cf_ret]

\* The next state of the store is c (evaluated once).
CfBecome(c) ==
    \E r \in {c} :
        /\ cf_account' = r.account
        /\ cf_configured' = r.configured
        /\ cf_file' = r.file
        /\ cf_temp' = r.temp
        /\ cf_pc' = r.pc
        /\ cf_old' = r.old
        /\ cf_op' = r.op
        /\ cf_ret' = r.ret
        /\ UNCHANGED <<drvVars, coVars, enVars, rbVars, nfVars, slVars, wzVars, nmVars>>

\* is_configured (lines 161-167).
CfIsConfigured(c) == c.configured /\ c.account # None

\* _save_config returns (an exception was logged at lines 88-89 or the
\* replace succeeded) and its caller returns: set_heos_account returns True
\* (line 117), update_host returns nothing.
CfSaveEnd(c) ==
    [c EXCEPT !.pc = "idle", !.ret = IF c.op = "set" THEN "True" ELSE "None"]

\* An operation that saves enters _save_config (line 68).
CfSaveBegin(c, op) ==
    [c EXCEPT !.pc = "open", !.op = op, !.ret = "None", !.old = c.file]

\* Mutant of CfOpen: the configuration file itself is opened for writing.
CfOpenInPlace(c, ok) ==
    IF ok
    THEN [c EXCEPT !.file = Partial, !.pc = "write"]
    ELSE CfSaveEnd(c)

\* open(temp_file, 'w') (lines 84-85): the temporary file is created or
\* truncated; an OSError is caught at line 88.
CfOpen(c, ok) ==
    IF ok
    THEN [c EXCEPT !.temp = Partial, !.pc = "write"]
    ELSE CfSaveEnd(c)

\* json.dump and the close of the file (lines 85-86): the temporary file
\* holds the whole document, or an error leaves it partly written.
CfWrite(c, ok) ==
    IF ok
    THEN [c EXCEPT !.temp = Serialize(c.account), !.pc = "replace"]
    ELSE CfSaveEnd(c)

\* temp_file.replace(self._config_file) (line 87): an atomic rename.
CfReplace(c, ok) ==
    IF ok
    THEN CfSaveEnd([c EXCEPT !.file = c.temp, !.temp = Absent])
    ELSE CfSaveEnd(c)

\* set_heos_account (lines 98-121) up to the first file operation.
CfSetAccount(a) ==
    /\ cf_pc = "idle"
    /\ CfBecome(CfSaveBegin([CF EXCEPT !.account = a, !.configured = TRUE],
                            "set"))

\* update_host (lines 135-139).
CfUpdateHost(h) ==
    /\ cf_pc = "idle"
    /\ IF cf_account # None
       THEN CfBecome(CfSaveBegin([CF EXCEPT !.account.host = h], "host"))
       ELSE CfBecome([CF EXCEPT !.op = "host", !.ret = "None", !.old = CF.file])

\* The steps of _save_config.
CfOpenTemp(ok) ==
    /\ cf_pc = "open"
    /\ CfBecome(CfOpen(CF, ok))

CfWriteTemp(ok) ==
    /\ cf_pc = "write"
    /\ CfBecome(CfWrite(CF, ok))

CfReplaceFile(ok) ==
    /\ cf_pc = "replace"
    /\ CfBecome(CfReplace(CF, ok))

\* Mutant of CfClear: the file is left in place.
CfClearKeepFile(c, ok) ==
    [c EXCEPT !.account = None, !.configured = FALSE, !.op = "clear",
              !.old = c.file, !.ret = "True"]

\* clear_configuration (lines 141-159): memory is cleared first; the file
\* is removed if it exists; an error of unlink is reported by False.
CfClear(c, ok) ==
    LET c1 == [c EXCEPT !.account = None, !.configured = FALSE,
                        !.op = "clear", !.old = c.file]
    IN  IF c.file = Absent
        THEN [c1 EXCEPT !.ret = "True"]
        ELSE IF ok
             THEN [c1 EXCEPT !.file = Absent, !.ret = "True"]
             ELSE [c1 EXCEPT !.ret = "False"]

CfClearConfiguration(ok) ==
    /\ cf_pc = "idle"
    /\ ok \/ cf_file # Absent
    /\ CfBecome(CfClear(CF, ok))

\* reload_from_disk (lines 91-96).
CfReload(c) ==
    LET l == LoadFile(c.file)
    IN  [c EXCEPT !.account = l.account, !.configured = l.configured,
                  !.op = "reload", !.ret = "None", !.old = c.file]

CfReloadFromDisk ==
    /\ cf_pc = "idle"
    /\ CfBecome(CfReload(CF))

\* The process ends, at any point of an operation, and a fresh HeosConfig
\* is constructed (lines 29-44): what a reader finds in the file.
CfFresh(c) ==
    LET l == LoadFile(c.file)
    IN  [c EXCEPT !.account = l.account, !.configured = l.configured,
                  !.pc = "idle", !.op = "load", !.ret = "None",
                  !.old = c.file]

\* The last operation was a set_heos_account that returned True.
CfSetReturnedTrue == cf_pc = "idle" /\ cf_op = "set" /\ cf_ret = "True"

CfFreshInstance ==
    /\ cf_op # "none"
    /\ CfBecome(CfFresh(CF))

\* A process start: whatever an earlier process left in the file.
CfInit ==
    /\ DrvInit
    /\ config_disk = None
    /\ CoNew
    /\ EnNew
    /\ RbNew
    /\ NfNew
    /\ SlNew
    /\ WzNew
    /\ NmNew
    /\ cf_file \in {Absent} \cup {Serialize(a) : a \in CfAccounts}
    /\ cf_temp = Absent
    /\ cf_account = LoadFile(cf_file).account
    /\ cf_configured = LoadFile(cf_file).configured
    /\ cf_pc = "idle"
    /\ cf_old = cf_file
    /\ cf_op = "load"
    /\ cf_ret = "None"

CfNext ==
    \/ \E a \in CfAccounts : CfSetAccount(a)
    \/ \E h \in CfHosts : CfUpdateHost(h)
    \/ \E ok \in BOOLEAN : CfOpenTemp(ok)
    \/ \E ok \in BOOLEAN : CfWriteTemp(ok)
    \/ \E ok \in BOOLEAN : CfReplaceFile(ok)
    \/ \E ok \in BOOLEAN : CfClearConfiguration(ok)
    \/ CfReloadFromDisk
    \/ CfFreshInstance

ConfigSpec == CfInit /\ [][CfNext]_vars

(***************************************************************************)
(* HeosRemote.handle_cmd (remote.py:417-524) and its helpers.              *)
(***************************************************************************)
\* The entities' state as one record.
EN ==
    [commands |-> en_commands, heos |-> rm_heos, others |-> rm_others,
     lock |-> rm_lock, waiters |-> rm_waiters, pc |-> rm_pc, cmd |-> rm_cmd,
     timer |-> rm_timer, status |-> rm_status, calls |-> rm_calls,
     age |-> rm_age, call_age |-> rm_call_age, gap |-> rm_gap,
     prev_cmd |-> rm_prev_cmd,
     inflight |-> rm_inflight, attrs |-> rm_attrs,
     mpc |-> mp_pc, mcmd |-> mp_cmd, msrc |-> mp_src, maction |-> mp_action,
     mstatus |-> mp_status, mcalls |-> mp_calls, mfailed |-> mp_failed,
     mattrs |-> mp_attrs]

\* The next state of the entities is e (evaluated once).
EnBecome(e) ==
    \E r \in {e} :
        /\ en_commands' = r.commands
        /\ rm_heos' = r.heos
        /\ rm_others' = r.others
        /\ rm_lock' = r.lock
        /\ rm_waiters' = r.waiters
        /\ rm_pc' = r.pc
        /\ rm_cmd' = r.cmd
        /\ rm_timer' = r.timer
        /\ rm_status' = r.status
        /\ rm_calls' = r.calls
        /\ rm_age' = r.age
        /\ rm_call_age' = r.call_age
        /\ rm_gap' = r.gap
        /\ rm_prev_cmd' = r.prev_cmd
        /\ rm_inflight' = r.inflight
        /\ rm_attrs' = r.attrs
        /\ mp_pc' = r.mpc
        /\ mp_cmd' = r.mcmd
        /\ mp_src' = r.msrc
        /\ mp_action' = r.maction
        /\ mp_status' = r.mstatus
        /\ mp_calls' = r.mcalls
        /\ mp_failed' = r.mfailed
        /\ mp_attrs' = r.mattrs
        /\ UNCHANGED <<drvVars, coVars, cfVars, rbVars, nfVars, slVars, wzVars, nmVars>>

\* A protocol call of caller c's command is issued and awaited.
RmIssue(e, c) ==
    [e EXCEPT !.pc[c] = "call", !.calls[c] = @ + 1, !.call_age = 0,
              !.gap = e.call_age, !.prev_cmd = e.cmd[c], !.inflight = @ + 1]

\* handle_cmd returns status to caller c and leaves the async with block
\* (line 419): the lock passes to the caller that has waited longest, which
\* goes on with the throttle (lines 426-434).
RECURSIVE RmReturn(_, _, _)
RECURSIVE RmDispatch(_, _)
RmEnter(e, c) ==
    LET e1 == [e EXCEPT !.lock = c]
    IN  IF e1.age[e1.cmd[c]] < ThrottleTicks
        THEN [e1 EXCEPT !.pc[c] = "sleep",
                        !.timer[c] = ThrottleTicks - e1.age[e1.cmd[c]]]
        ELSE RmDispatch(e1, c)

RmReturn(e, c, status) ==
    LET e1 == [e EXCEPT !.status[c] = status, !.pc[c] = "idle", !.lock = 0]
    IN  IF e1.waiters = <<>>
        THEN e1
        ELSE RmEnter([e1 EXCEPT !.waiters = Tail(@)], Head(e1.waiters))

\* Mutant of RmUnknown: an unrecognised command is answered with OK.
RmUnknownOk(e, c) == RmReturn(e, c, "OK")

\* No branch matches the command (lines 512-514).
RmUnknown(e, c) == RmReturn(e, c, "NOT_IMPLEMENTED")

\* Lines 434-516: the time of the command is recorded and the command is
\* dispatched.  With _heos unset every self._heos.... raises AttributeError:
\* in handle_cmd it is answered with SERVER_ERROR (522-524), in a helper it
\* is logged and the command is answered with OK.
RmDispatch(e, c) ==
    LET cmd  == e.cmd[c]
        kind == RemoteKind(cmd)
        e1   == [e EXCEPT !.age[cmd] = 0]
    IN  CASE kind = "unknown" -> RmUnknown(e1, c)
          [] kind = "nocall" -> RmReturn(e1, c, "OK")
          [] kind = "direct" ->
               IF e1.heos THEN RmIssue(e1, c)
               ELSE RmReturn(e1, c, "SERVER_ERROR")
          [] kind = "swallow" ->
               IF e1.heos THEN RmIssue(e1, c)
               ELSE RmReturn(e1, c, "OK")
          [] kind = "group" ->
               IF e1.heos /\ e1.others THEN RmIssue(e1, c)
               ELSE RmReturn(e1, c, "OK")

\* The awaited protocol call of caller c ends with outcome out.  A call
\* awaited in handle_cmd: OK, or SERVER_ERROR for an exception (518-524).
\* A call awaited in a helper: the helper logs an exception (534-535,
\* 574-575) and returns, and handle_cmd answers OK (516).
RmCallEnd(e, c, out) ==
    LET e1 == [e EXCEPT !.inflight = @ - 1]
    IN  IF RemoteKind(e1.cmd[c]) = "direct" /\ out # "ok"
        THEN RmReturn(e1, c, "SERVER_ERROR")
        ELSE RmReturn(e1, c, "OK")

\* The platform sends a command to the remote (line 417): the handler
\* takes the lock or waits for it.
RmCommand(c, cmd) ==
    /\ rm_pc[c] = "idle"
    /\ en_commands < MaxCommands
    /\ LET e1 == [EN EXCEPT !.commands = @ + 1, !.cmd[c] = cmd,
                            !.calls[c] = 0, !.status[c] = ""]
       IN  IF e1.lock = 0
           THEN EnBecome(RmEnter(e1, c))
           ELSE EnBecome([e1 EXCEPT !.pc[c] = "wait_lock",
                                    !.waiters = Append(@, c)])

\* The throttle sleep of caller c is over (line 432).
RmWake(c) ==
    /\ rm_pc[c] = "sleep"
    /\ rm_timer[c] = 0
    /\ EnBecome(RmDispatch(EN, c))

\* The protocol call of caller c ends.
RmCallEnds(c, out) ==
    /\ rm_pc[c] = "call"
    /\ EnBecome(RmCallEnd(EN, c, out))

\* A quarter of a second passes.
EnTick ==
    /\ \/ \E k \in RemoteCommands : rm_age[k] < ThrottleTicks
       \/ \E c \in Callers : rm_timer[c] > 0
       \/ rm_call_age < ThrottleTicks
    /\ EnBecome([EN EXCEPT
          !.age = [k \in RemoteCommands |->
                     IF @[k] < ThrottleTicks THEN @[k] + 1 ELSE @[k]],
          !.timer = [c \in Callers |-> IF @[c] > 0 THEN @[c] - 1 ELSE 0],
          !.call_age = IF @ < ThrottleTicks THEN @ + 1 ELSE @])

(***************************************************************************)
(* HeosMediaPlayer._command_handler (media_player.py:382-494) with         *)
(* _handle_select_source (496-542).                                        *)
(***************************************************************************)
\* Mutant of SourceAction: the playlists are consulted before the inputs.
SourceActionPlaylistsFirst(src) ==
    IF src.fav THEN "preset"
    ELSE IF src.playlists THEN "playlist"
    ELSE IF src.inputs THEN "input"
    ELSE IF src.music = "available" THEN "browse"
    ELSE "none"

\* _handle_select_source: the first category that holds the name decides
\* the call; "none": HeosError "Source not found" is raised (line 538).
SourceAction(src) ==
    IF src.fav THEN "preset"
    ELSE IF src.inputs THEN "input"
    ELSE IF src.playlists THEN "playlist"
    ELSE IF src.music = "available" THEN "browse"
    ELSE "none"

\* The handler returns status.
MpReturn(e, status) == [e EXCEPT !.mpc = "idle", !.mstatus = status]

\* A protocol call of the command is issued and awaited.
MpIssue(e, action) ==
    [e EXCEPT !.mpc = "call", !.maction = action, !.mcalls = @ + 1]

\* The platform sends a command to the media player (line 382).
MpCommand(cmd) ==
    /\ mp_pc = "idle"
    /\ en_commands < MaxCommands
    /\ \E src \in (IF cmd = "select_source" THEN SourceCaches ELSE {NoSource}) :
          LET e1 == [EN EXCEPT !.commands = @ + 1, !.mcmd = cmd, !.msrc = src,
                               !.maction = "", !.mstatus = "", !.mcalls = 0,
                               !.mfailed = FALSE]
          IN  CASE cmd = "play" -> EnBecome(MpIssue(e1, "play"))
                [] cmd = "select_source" ->
                     IF SourceAction(src) = "none"
                     THEN EnBecome(MpReturn(e1, "SERVER_ERROR"))
                     ELSE EnBecome(MpIssue(e1, SourceAction(src)))
                [] OTHER -> EnBecome(MpReturn(e1, "NOT_IMPLEMENTED"))

\* The protocol call ends.  An exception of a call awaited in the handler
\* or in _handle_select_source reaches lines 489-494: SERVER_ERROR.
\* _auto_play_from_browse catches every exception and returns False
\* (lines 378-380), and the handler goes on as after a success.
MpCallEnds(out) ==
    /\ mp_pc = "call"
    /\ IF out = "ok" \/ mp_action = "browse"
       THEN EnBecome([EN EXCEPT !.mpc = "sleep", !.mfailed = (out # "ok")])
       ELSE EnBecome(MpReturn([EN EXCEPT !.mfailed = TRUE], "SERVER_ERROR"))

\* asyncio.sleep(0.5) (line 484) is over; push_update is awaited.
MpSlept ==
    /\ mp_pc = "sleep"
    /\ EnBecome([EN EXCEPT !.mpc = "push"])

\* push_update (line 485) ends: the attributes are recomputed from the
\* device and OK is returned, or it raises and SERVER_ERROR is returned.
MpPushed(ok) ==
    /\ mp_pc = "push"
    /\ IF ok
       THEN \E st \in {"PLAYING", "PAUSED", "UNAVAILABLE"} :
               EnBecome(MpReturn([EN EXCEPT !.mattrs = st], "OK"))
       ELSE EnBecome(MpReturn(EN, "SERVER_ERROR"))

\* Entities registered by a successful initialization; the remote's session
\* may have been set from outside (remote.py:68-72).
EnInit ==
    /\ DrvInit
    /\ config_disk = None
    /\ CoNew
    /\ CfNew
    /\ RbNew
    /\ NfNew
    /\ SlNew
    /\ WzNew
    /\ NmNew
    /\ en_commands = 0
    /\ rm_heos \in BOOLEAN
    /\ rm_others \in BOOLEAN
    /\ rm_lock = 0
    /\ rm_waiters = <<>>
    /\ rm_pc = [c \in Callers |-> "idle"]
    /\ rm_cmd = [c \in Callers |-> ""]
    /\ rm_timer = [c \in Callers |-> 0]
    /\ rm_status = [c \in Callers |-> ""]
    /\ rm_calls = [c \in Callers |-> 0]
    /\ rm_age = [k \in RemoteCommands |-> ThrottleTicks]
    /\ rm_call_age = ThrottleTicks
    /\ rm_gap = ThrottleTicks
    /\ rm_prev_cmd = ""
    /\ rm_inflight = 0
    /\ rm_attrs = "available"
    /\ mp_pc = "idle"
    /\ mp_cmd = ""
    /\ mp_src = NoSource
    /\ mp_action = ""
    /\ mp_status = ""
    /\ mp_calls = 0
    /\ mp_failed = FALSE
    /\ mp_attrs = "UNKNOWN"

EnNext ==
    \/ \E c \in Callers, cmd \in RemoteCommands : RmCommand(c, cmd)
    \/ \E c \in Callers : RmWake(c)
    \/ \E c \in Callers, out \in CallOutcomes : RmCallEnds(c, out)
    \/ EnTick
    \/ \E cmd \in PlayerCommands : MpCommand(cmd)
    \/ \E out \in CallOutcomes : MpCallEnds(out)
    \/ MpSlept
    \/ \E ok \in BOOLEAN : MpPushed(ok)

EntitySpec == EnInit /\ [][EnNext]_vars

(***************************************************************************)
(* _create_intelligent_remotes (driver.py:130-161) for one player.         *)
(***************************************************************************)
\* Lines 139-145: the capabilities are detected and the commands built.
RbBuild ==
    /\ ~rb_done
    /\ rb_done' = TRUE
    /\ rb_commands' = BuildCommands(rb_in.self, DetectCapabilities(rb_in),
                                    rb_in.players)
    /\ UNCHANGED <<rb_in, rb_handled, drvVars, coVars, cfVars, enVars, nfVars, slVars, wzVars, nmVars>>

\* The host sends one of the commands the remote advertises (the branch
\* taken depends on the command alone: one command per behaviour).
RbHandle ==
    /\ rb_done
    /\ rb_handled = <<>>
    /\ \E c \in rb_commands : rb_handled' = <<c, HandleCmdBranch(c)>>
    /\ UNCHANGED <<rb_in, rb_done, rb_commands, drvVars, coVars, cfVars, enVars, nfVars, slVars, wzVars, nmVars>>

\* A remote is about to be built for one of the account's players; a music
\* source is flagged available or not.
RbInit ==
    /\ DrvInit
    /\ config_disk = None
    /\ CoNew
    /\ CfNew
    /\ EnNew
    /\ NfNew
    /\ SlNew
    /\ WzNew
    /\ NmNew
    /\ rb_in \in BuildInputs
    /\ rb_in.self \in rb_in.players
    /\ rb_in.available \cap rb_in.unavailable = {}
    /\ rb_done = FALSE
    /\ rb_commands = {}
    /\ rb_handled = <<>>

RbNext == RbBuild \/ RbHandle

RemoteBuildSpec == RbInit /\ [][RbNext]_vars

(***************************************************************************)
(* Registration with and fan-out from the coordinator's observer list.     *)
(***************************************************************************)
\* add_entity_callback (lines 162-164), called once by each media player
\* (media_player.py:116).
NfAdd(cb) ==
    /\ \A i \in 1..Len(nf_callbacks) : nf_callbacks[i] # cb
    /\ nf_callbacks' = Append(nf_callbacks, cb)
    /\ nf_done' = FALSE
    /\ UNCHANGED <<nf_raising, nf_log, drvVars, coVars, cfVars, enVars, rbVars, slVars, wzVars, nmVars>>

\* remove_entity_callback (lines 166-169).
NfRemove(cb) ==
    /\ \E i \in 1..Len(nf_callbacks) : nf_callbacks[i] = cb
    /\ nf_callbacks' = ListRemove(nf_callbacks, cb)
    /\ nf_done' = FALSE
    /\ UNCHANGED <<nf_raising, nf_log, drvVars, coVars, cfVars, enVars, rbVars, slVars, wzVars, nmVars>>

\* notify_entities (lines 171-177); any of the callbacks may raise.
NfNotify(raising) ==
    /\ nf_callbacks # <<>>
    /\ raising \subseteq {nf_callbacks[i] : i \in 1..Len(nf_callbacks)}
    /\ nf_log' = NotifyEntities(nf_callbacks, raising)
    /\ nf_raising' = raising
    /\ nf_done' = TRUE
    /\ UNCHANGED <<nf_callbacks, drvVars, coVars, cfVars, enVars, rbVars, slVars, wzVars, nmVars>>

NfInit ==
    /\ DrvInit
    /\ config_disk = None
    /\ CoNew
    /\ CfNew
    /\ EnNew
    /\ RbNew
    /\ NfNew
    /\ SlNew
    /\ WzNew
    /\ NmNew

NfNext ==
    \/ \E cb \in CallbackIds : NfAdd(cb)
    \/ \E cb \in CallbackIds : NfRemove(cb)
    \/ \E raising \in SUBSET CallbackIds : NfNotify(raising)

NotifySpec == NfInit /\ [][NfNext]_vars

(***************************************************************************)
(* One coordinator's loads, one after the other, by content.               *)
(***************************************************************************)
SlBecome(c) ==
    \E r \in {c} :
        /\ sl_music' = r.music
        /\ sl_favorites' = r.favorites
        /\ sl_inputs' = r.inputs
        /\ sl_playlists' = r.playlists
        /\ sl_list' = r.list
        /\ sl_signed' = r.signed
        /\ sl_pc' = r.pc
        /\ UNCHANGED <<drvVars, coVars, cfVars, enVars, rbVars, nfVars, wzVars, nmVars>>

\* _async_update_sources is called (async_setup, the reconnect handler or
\* the debounce task); the session is signed in or not.
SlLoad ==
    /\ sl_pc = "idle"
    /\ \E signed \in BOOLEAN :
          SlBecome(SlLoadStart([SL EXCEPT !.signed = signed]))

\* get_music_sources returns or raises.
SlMusicEnds ==
    /\ sl_pc = "music"
    /\ \E ok \in BOOLEAN, data \in MusicData :
          SlBecome(SlToFavorites(SlAfterMusic(SL, ok, data)))

\* get_favorites returns or raises.
SlFavoritesEnd ==
    /\ sl_pc = "fav"
    /\ \E ok \in BOOLEAN, data \in FavoriteData :
          SlBecome(SlAfterFavorites(SL, ok, data))

\* get_input_sources returns or raises.
SlInputsEnd ==
    /\ sl_pc = "inputs"
    /\ \E ok \in BOOLEAN, data \in InputData :
          SlBecome(SlAfterInputs(SL, ok, data))

\* get_playlists returns or raises.
SlPlaylistsEnd ==
    /\ sl_pc = "playlists"
    /\ \E ok \in BOOLEAN, data \in PlaylistData :
          SlBecome(SlAfterPlaylists(SL, ok, data))

SlInit ==
    /\ DrvInit
    /\ config_disk = None
    /\ CoNew
    /\ CfNew
    /\ EnNew
    /\ RbNew
    /\ NfNew
    /\ SlNew
    /\ WzNew
    /\ NmNew

SlNext ==
    \/ SlLoad
    \/ SlMusicEnds
    \/ SlFavoritesEnd
    \/ SlInputsEnd
    \/ SlPlaylistsEnd

SourceListSpec == SlInit /\ [][SlNext]_vars

(***************************************************************************)
(* The setup wizard on its own (setup.py:28-221), driven by the messages   *)
(* of the host platform in any order.                                      *)
(***************************************************************************)
\* The wizard's state as one record.
WZ ==
    [state |-> wz_state, outstanding |-> wz_outstanding, pc |-> wz_pc,
     acct |-> wz_acct, probes |-> wz_probes, mem |-> wz_mem,
     disk |-> wz_disk, action |-> wz_action]

WzBecome(w) ==
    \E r \in {w} :
        /\ wz_state' = r.state
        /\ wz_outstanding' = r.outstanding
        /\ wz_pc' = r.pc
        /\ wz_acct' = r.acct
        /\ wz_probes' = r.probes
        /\ wz_mem' = r.mem
        /\ wz_disk' = r.disk
        /\ wz_action' = r.action
        /\ UNCHANGED <<drvVars, coVars, cfVars, enVars, rbVars, nfVars, slVars, nmVars>>

\* _handle_driver_setup_request (lines 63-72), _handle_reconfiguration
\* (74-82) and _request_heos_setup (84-129): RequestUserInput is returned.
WzDriverSetupRequest(w, reconfigure, unlinked) ==
    [w EXCEPT !.mem = IF reconfigure /\ w.mem # None THEN None ELSE @,
              !.disk = IF reconfigure /\ w.mem # None /\ unlinked THEN None ELSE @,
              !.state = "heos_setup",
              !.outstanding = TRUE,
              !.action = "RequestUserInput"]

\* _handle_user_data_response (lines 131-137) and _handle_heos_setup up to
\* its await of connect (139-165): outside the state "heos_setup", or with
\* a field missing (acct = None), SetupError is returned; else the probe
\* session is created.
WzUserDataResponse(w, acct) ==
    IF w.state # "heos_setup" \/ acct = None
    THEN [w EXCEPT !.outstanding = FALSE, !.action = "SetupError"]
    ELSE [w EXCEPT !.outstanding = FALSE,
                   !.acct = acct,
                   !.probes = IF @ < MaxProbes THEN @ + 1 ELSE @,
                   !.pc = "probe"]

\* The probe ends (lines 165-212): on success the account is set
\* (config.py:98-113; the file is written unless the save fails) and
\* SetupComplete returned; else a SetupError.
WzProbeEnd(w, ok, saved) ==
    IF ok
    THEN [w EXCEPT !.mem = w.acct,
                   !.disk = IF saved THEN w.acct ELSE @,
                   !.acct = None,
                   !.pc = "idle",
                   !.action = "SetupComplete"]
    ELSE [w EXCEPT !.acct = None, !.pc = "idle", !.action = "SetupError"]

\* AbortDriverSetup (lines 50-53).
WzAbortDriverSetup(w) ==
    [w EXCEPT !.outstanding = FALSE, !.action = "SetupComplete"]

\* The host sends a DriverSetupRequest.
WzRequest ==
    /\ wz_pc = "idle"
    /\ \E reconfigure \in BOOLEAN, unlinked \in BOOLEAN :
          WzBecome(WzDriverSetupRequest(WZ, reconfigure, unlinked))

\* The host sends a UserDataResponse, whether it was asked for one or not.
WzUserData ==
    /\ wz_pc = "idle"
    /\ \E acct \in CfAccounts \cup {None} :
          WzBecome(WzUserDataResponse(WZ, acct))

\* The probe session's calls end.
WzProbeEnds ==
    /\ wz_pc = "probe"
    /\ \E ok \in BOOLEAN, saved \in BOOLEAN : WzBecome(WzProbeEnd(WZ, ok, saved))

\* The host sends an AbortDriverSetup.
WzAbort ==
    /\ wz_pc = "idle"
    /\ WzBecome(WzAbortDriverSetup(WZ))

WzInit ==
    /\ DrvInit
    /\ config_disk = None
    /\ CoNew
    /\ CfNew
    /\ EnNew
    /\ RbNew
    /\ NfNew
    /\ SlNew
    /\ NmNew
    /\ wz_state = "start"
    /\ wz_outstanding = FALSE
    /\ wz_pc = "idle"
    /\ wz_acct = None
    /\ wz_probes = 0
    /\ wz_mem \in CfAccounts \cup {None}
    /\ wz_disk = wz_mem
    /\ wz_action = ""

WzNext ==
    \/ WzRequest
    \/ WzUserData
    \/ WzProbeEnds
    \/ WzAbort

WizardSpec == WzInit /\ [][WzNext]_vars

(***************************************************************************)
(* Properties.                                                             *)
(***************************************************************************)
\* Where a task is inside an initialization attempt (lines 52-127).
AttemptPcs == {"setup", "player", "remote", "shutdown"}

\* Player p has a registered Player entity: lines 103-105 ran for it and
\* the host platform holds an entity under its id in both collections.
PlayerRegistered(p) ==
    /\ p \in DOMAIN media_players
    /\ MediaPlayerId(p) \in DOMAIN available_entities
    /\ MediaPlayerId(p) \in DOMAIN configured_entities

\* Player p has a registered Remote entity (lines 159-161).
RemoteRegistered(p) ==
    /\ p \in DOMAIN remotes
    /\ RemoteId(p) \in DOMAIN available_entities
    /\ RemoteId(p) \in DOMAIN configured_entities

\* The entities and the coordinator are left as they are.
RegistrationUnchanged ==
    UNCHANGED <<coordinator, sessions, gen, att, media_players, remotes,
                available_entities, configured_entities, entities_ready>>

\* C1: a call of _initialize_entities that arrives while an attempt is in
\* flight waits for the lock (only the lock holder is ever inside an
\* attempt), and when it gets the lock with the flag true it sets up no
\* coordinator and registers nothing; the registered entities are those of
\* the one successful attempt, one Player entity per player.
C1_SecondCallWaits ==
    /\ [](\A t \in Tasks : pc[t] \in AttemptPcs => initialization_lock = t)
    /\ [](entities_ready =>
            /\ DOMAIN media_players = att.players
            /\ \A p \in DOMAIN media_players :
                  media_players[p] = Entity("player", p, gen)
            /\ \A id \in DOMAIN available_entities :
                  available_entities[id].gen = gen
            /\ Cardinality({id \in DOMAIN available_entities :
                              available_entities[id].kind = "player"})
                 <= Cardinality(att.players))
    /\ [][\A t \in Tasks :
            (pc[t] = "wait_lock" /\ pc'[t] # "wait_lock" /\ entities_ready)
               => RegistrationUnchanged]_vars

\* A second caller is waiting for the lock when the first attempt has
\* succeeded.
C1_Witness ==
    /\ entities_ready
    /\ \E t \in Tasks : pc[t] = "wait_lock"

\* C2: whenever the readiness flag is true, every player of the successful
\* attempt's enumeration has a registered Player entity and, if there is
\* more than one player, a registered Remote entity.
C2_ReadyImpliesRegistered ==
    entities_ready =>
        \A p \in att.players :
            /\ PlayerRegistered(p)
            /\ Cardinality(att.players) > 1 => RemoteRegistered(p)

AttemptRaised ==
    \/ att.end = "raised"
    \/ /\ att.end = "ready"
       /\ Cardinality(att.players) > 1
       /\ DOMAIN remotes # att.players

\* C4: once an attempt in which a step raised has ended, the readiness flag
\* is false and the attempt's coordinator is shut down and dropped.
C4_RaiseRollsBack ==
    AttemptRaised =>
        /\ ~entities_ready
        /\ coordinator = 0
        /\ gen \notin sessions

\* An entity built by the latest attempt is still in the driver's maps or
\* in the host platform's collections.
EntityOfAttemptLeft ==
    \/ \E p \in DOMAIN media_players : media_players[p].gen = gen
    \/ \E p \in DOMAIN remotes : remotes[p].gen = gen
    \/ \E id \in DOMAIN available_entities : available_entities[id].gen = gen
    \/ \E id \in DOMAIN configured_entities : configured_entities[id].gen = gen

\* C5: after a failed attempt none of the entities it created is left
\* registered.
C5_FailureRollsBackFully ==
    att.end = "raised" => ~EntityOfAttemptLeft

\* C6: an attempt whose enumeration returned no player is a failure like
\* any other: flag false, nothing registered, coordinator shut down and
\* dropped.
C6_NoPlayersIsFailure ==
    att.end = "empty" =>
        /\ ~entities_ready
        /\ media_players = Empty /\ remotes = Empty /\ available_entities = Empty
        /\ coordinator = 0
        /\ gen \notin sessions

\* C7: whenever an attempt ends with its exception, whichever task ran it,
\* ERROR is the device state reported.
C7_FailureReportsError ==
    [][(\E t \in Tasks : ShutdownReturns(t)) => device_state' = "ERROR"]_vars

\* C8: an attempt begins (a coordinator is created) only with a
\* configuration present, a call that finds none changes neither the
\* entities nor the flag, and a connect event that finds no configuration
\* (at its own check or at the entry check of the call it makes) reports
\* DISCONNECTED.
C8_Unconfigured ==
    /\ [][gen' # gen => config_mem' # None]_vars
    /\ [][((\E t \in Tasks : LockAcquired(t)) /\ config_mem = None)
             => RegistrationUnchanged]_vars
    /\ [][(OnConnect /\ config_disk = None)
             => (device_state' = "DISCONNECTED" /\ RegistrationUnchanged)]_vars
    /\ [][(LockAcquired("conn") /\ config_mem = None)
             => device_state' = "DISCONNECTED"]_vars

\* A call of _initialize_entities is about to reach the entry check with no
\* configuration present.
C8_Witness ==
    /\ config_mem = None
    /\ initialization_lock = Free
    /\ \E t \in Tasks : pc[t] = "wait_lock"

\* C9: the subscribe handler never begins its lookups, and never awaits a
\* push_update, while the readiness flag is false.
C9_NoLookupWhileUnready ==
    /\ ~sub_unready
    /\ pc["sub"] = "push" => entities_ready

Quiescent == \A t \in Tasks : pc[t] \in {"idle", "done"}

\* C11: when a reconfiguration (the flow cleared the old configuration and
\* saved the new account) completes, the initialization it triggers starts
\* a fresh attempt (or queues for the lock), whatever the readiness flag.
C11_ReconfigurationRebuilds ==
    [][(/\ SetupCleaned
        /\ pc["setup"] = "cleanup_complete"
        /\ setup_cleared
        /\ config_mem # None
        /\ config_disk = config_mem)
         => (gen' = gen + 1 \/ pc'["setup"] = "wait_lock")]_vars

\* C12: once all handlers have finished, CONNECTED is the state last
\* reported only if the integration is configured and the readiness flag
\* is true (the half of the equivalence that does not depend on the host
\* connection).
C12_DeviceStateTruthful ==
    (Quiescent /\ device_state = "CONNECTED")
        => (config_mem # None /\ entities_ready)

\* The identifiers of the entities the driver holds as registered.
RegisteredIds ==
    {EntityId(media_players[p]) : p \in DOMAIN media_players}
        \cup {EntityId(remotes[p]) : p \in DOMAIN remotes}

\* A session-level disconnect or reconnect event is handled.
CoSessionEvent == CoDisconnected \/ CoReconnected

\* C13: a session disconnect or reconnect leaves the registered entities
\* and the readiness flag as they are, and once its handler has finished
\* every registered Player and Remote entity has been notified.
C13_ReconnectNotifiesAll ==
    /\ [][CoSessionEvent =>
            UNCHANGED <<media_players, remotes, available_entities,
                        configured_entities, entities_ready>>]_vars
    /\ [][(CoDisconnected \/ \E ok \in BOOLEAN : CoFetchEnds("reconn", ok))
            => (co_lpc'["reconn"] = "idle" => co_notified' = RegisteredIds)]_vars

\* C14: a category whose fetch fails has an empty cache, and a category
\* whose fetch succeeds holds the data fetched by this load.
C14_FailedCategoryEmpty ==
    [][\A l \in Loaders :
         /\ CoFetchEnds(l, FALSE) => co_cache'[co_lpc[l]] = 0
         /\ CoFetchEnds(l, TRUE) => co_cache'[co_lpc[l]] = co_lid[l]]_vars

\* A sources-changed or user-changed event is handled.
CoSourcesEvent == \E kind \in {"sources", "user"} : CoControllerEvent(kind, {})

\* C15: every sources/user-changed event replaces the pending timer by a
\* full one; the re-sync starts only when the timer has run out and the
\* full delay has passed since the last event; a burst starts at most one
\* re-sync, and none while a timer is pending.
C15_DebounceCoalesces ==
    /\ [][CoSourcesEvent =>
            (co_task' = "sleeping" /\ co_timer' = DebounceDelay)]_vars
    /\ [][co_burst_syncs' > co_burst_syncs =>
            (/\ co_task = "sleeping"
             /\ co_timer = 0
             /\ co_since = DebounceDelay
             /\ co_burst_syncs' = 1)]_vars
    /\ [](co_task = "sleeping" => co_burst_syncs = 0)

\* A burst of at least three events has been followed by its re-sync.
C15_Witness ==
    /\ co_burst_events >= 3
    /\ co_burst_syncs = 1
    /\ co_task = "syncing"

\* C16: when a shutdown has completed no debounce task is pending, the
\* session is disconnected and dropped, the coordinator is inactive and the
\* cached account data is empty.
C16_ShutdownComplete ==
    (coordinator # 0 /\ ~co_heos /\ co_down = "no")
        => (/\ co_task \notin {"sleeping", "syncing"}
            /\ ~co_connected
            /\ \A c \in Categories : co_cache[c] = 0)

\* C17: a fresh instance constructed after set_heos_account returned True
\* is configured and holds exactly the account that was set.
C17_RoundTrip ==
    [][(CfSetReturnedTrue /\ CfFreshInstance)
         => (cf_configured' /\ cf_account' = cf_account)]_vars

\* The last operation called saves the configuration.
CfSaving == cf_op \in {"set", "host"}

\* C18: the configuration file is never partly written; during and after a
\* save it holds the complete previous document or the complete new one,
\* and a fresh instance constructed at any point of the save loads one of
\* the two.
C18_AtomicPersistence ==
    /\ [](cf_file.kind # "partial")
    /\ [](CfSaving => cf_file \in {cf_old, Serialize(cf_account)})
    /\ [][(CfSaving /\ CfFreshInstance)
            => cf_account' \in {LoadFile(cf_old).account, cf_account}]_vars

\* The save stands between the write of the temporary file and the rename,
\* over an existing configuration that differs from the new one.
C18_Witness ==
    /\ cf_pc = "replace"
    /\ cf_temp = Serialize(cf_account)
    /\ cf_old.kind = "json"
    /\ cf_old # cf_temp
    /\ cf_file = cf_old

\* C19: set_heos_account does not return True while the file does not hold
\* the new credentials.
C19_SuccessMeansPersisted ==
    CfSetReturnedTrue => cf_file = Serialize(cf_account)

\* is_configured() is true exactly when credentials are in memory.
CfFlagMatchesMemory == CfIsConfigured(CF) <=> cf_account # None

\* clear_configuration returns.
CfCleared == \E ok \in BOOLEAN : CfClearConfiguration(ok)

\* A load (fresh instance or reload_from_disk) that finds no file leaves
\* the store unconfigured and raises nothing.
CfMissingFileLoads ==
    [][((CfFreshInstance \/ CfReloadFromDisk) /\ cf_file = Absent)
         => (cf_account' = None /\ ~cf_configured' /\ cf_ret' = "None")]_vars

\* C20 as stated: the flag matches memory in every state; after
\* clear_configuration the credentials are absent and the file is removed,
\* so that a fresh instance loads as unconfigured; a missing file is not an
\* error.
C20_ClearAlwaysRemovesFile ==
    /\ []CfFlagMatchesMemory
    /\ [][CfCleared =>
            (/\ cf_account' = None
             /\ ~cf_configured'
             /\ cf_file' = Absent
             /\ ~LoadFile(cf_file').configured)]_vars
    /\ CfMissingFileLoads

\* C20 amended: as above, with the file removed whenever
\* clear_configuration returns True (it returns False when the removal of
\* the file fails, and the file is then left in place).
C20_StoreInvariant ==
    /\ []CfFlagMatchesMemory
    /\ [][CfCleared =>
            (/\ cf_account' = None
             /\ ~cf_configured'
             /\ cf_ret' \in {"True", "False"}
             /\ cf_ret' = "True" =>
                   (cf_file' = Absent /\ ~LoadFile(cf_file').configured))]_vars
    /\ CfMissingFileLoads

\* clear_configuration has removed the file of a configured store.
C20_Witness ==
    /\ cf_op = "clear"
    /\ cf_ret = "True"
    /\ cf_old.kind = "json"
    /\ cf_file = Absent
    /\ cf_account = None

\* C21: a failed probe never saves the account; a rejected sign-in gives
\* AUTHORIZATION_ERROR and a failed connect gives CONNECTION_REFUSED.
C21_SetupErrorsDistinct ==
    /\ [][SetupProbeFails => UNCHANGED <<config_mem, config_disk>>]_vars
    /\ [](pc["setup"] = "cleanup_error" =>
            /\ setup_failure.step = "sign_in"
                  => setup_failure.error = "AUTHORIZATION_ERROR"
            /\ setup_failure.step = "connect"
                  => setup_failure.error = "CONNECTION_REFUSED")

\* C22: a command no branch recognises is answered with NOT_IMPLEMENTED by
\* the Remote and by the Player, no protocol call is issued for it, and
\* the entity's attributes stay as they are.
C22_UnknownCommand ==
    /\ [](\A c \in Callers :
            rm_cmd[c] = "NOPE" =>
               /\ rm_calls[c] = 0
               /\ rm_pc[c] \in {"idle", "wait_lock", "sleep"}
               /\ rm_pc[c] = "idle" => rm_status[c] = "NOT_IMPLEMENTED")
    /\ [](mp_cmd = "nope" =>
            (mp_pc = "idle" /\ mp_status = "NOT_IMPLEMENTED" /\ mp_calls = 0))
    /\ [][rm_attrs' = rm_attrs]_vars
    /\ [][MpCommand("nope") => mp_attrs' = mp_attrs]_vars

\* Both entities have answered an unrecognised command.
C22_Witness ==
    /\ \E c \in Callers : rm_cmd[c] = "NOPE" /\ rm_status[c] = "NOT_IMPLEMENTED"
    /\ mp_cmd = "nope"
    /\ mp_status = "NOT_IMPLEMENTED"

\* C23: a command whose protocol call failed is answered with
\* SERVER_ERROR, never with OK.
C23_FailedCallIsError ==
    /\ [][\A c \in Callers, out \in CallOutcomes \ {"ok"} :
            RmCallEnds(c, out) => rm_status'[c] = "SERVER_ERROR"]_vars
    /\ []((mp_pc = "idle" /\ mp_failed) => mp_status = "SERVER_ERROR")

\* C24: a group-set call that ends with the busy error is attempted again
\* (up to 3 attempts) before the command is answered; any other error is
\* answered with a failure at once.
C24_BusyIsRetried ==
    [][\A c \in Callers :
         rm_cmd[c] = "GROUP_WITH_X" =>
            /\ (RmCallEnds(c, "busy") /\ rm_calls[c] < 3) => rm_pc'[c] # "idle"
            /\ RmCallEnds(c, "HeosError") =>
                  (rm_pc'[c] = "idle" /\ rm_status'[c] = "SERVER_ERROR")]_vars

\* C29: the protocol calls of one remote never overlap, and two successive
\* ones are issued at least the throttle time apart.
C29_CallsSpaced ==
    /\ rm_inflight <= 1
    /\ rm_gap >= ThrottleTicks

\* C30: the source selection issues the call of the first category, in the
\* order favorites, inputs, playlists, available music sources, that holds
\* the name, and only that call; a name in none of them is answered with an
\* error without any call.
C30_SourceOrder ==
    mp_cmd = "select_source" =>
       /\ mp_calls <= 1
       /\ mp_src.fav => mp_action = "preset"
       /\ (~mp_src.fav /\ mp_src.inputs) => mp_action = "input"
       /\ (~mp_src.fav /\ ~mp_src.inputs /\ mp_src.playlists)
             => mp_action = "playlist"
       /\ (~mp_src.fav /\ ~mp_src.inputs /\ ~mp_src.playlists)
             => IF mp_src.music = "available"
                THEN mp_action = "browse"
                ELSE /\ mp_action = ""
                     /\ mp_calls = 0
                     /\ mp_pc = "idle"
                     /\ mp_status = "SERVER_ERROR"

\* A name held by the inputs and the playlists (not the favorites) has been
\* played as an input.
C30_Witness ==
    /\ mp_cmd = "select_source"
    /\ ~mp_src.fav
    /\ mp_src.inputs
    /\ mp_src.playlists
    /\ mp_action = "input"
    /\ mp_status = "OK"

\* The commands the remote of rb_in.self is to have: the fixed ones, one
\* per discovered input, one per available music source, the first
\* min(n, 10) favorites, and with more than one player the grouping
\* commands for every other player.
C25_Expected ==
    BaseCommands
       \cup {<<"INPUT_", UpperName(InputKey(n))>> : n \in rb_in.inputs}
       \cup {<<"SERVICE_", UpperName(n)>> : n \in rb_in.available}
       \cup {<<"FAVORITE_", Digits(i)>> :
                i \in {j \in 1..10 : j <= rb_in.favorites}}
       \cup (IF Cardinality(rb_in.players) > 1
             THEN {Cmd("GROUP_ALL_SPEAKERS"), Cmd("LEAVE_GROUP")}
                     \cup {<<"GROUP_WITH_", GroupName(PlayerName(q))>> :
                              q \in rb_in.players \ {rb_in.self}}
             ELSE {})

\* C25: the command list built for a remote holds exactly the commands its
\* cached capabilities determine, and no others.
C25_CommandsExact == rb_done => rb_commands = C25_Expected

\* The entities a collection holds that an attempt before the current one
\* registered.
Stale(coll) == {k \in DOMAIN coll : coll[k].gen < gen}

\* C26: when an attempt has done its clearing step (it awaits the set-up of
\* its coordinator), neither the driver's Player and Remote maps nor the
\* platform's available and configured collections hold an entity of an
\* earlier attempt.
C26_ClearingStepClearsAll ==
    \A t \in Tasks :
        pc[t] = "setup" =>
            /\ Stale(media_players) = {}
            /\ Stale(remotes) = {}
            /\ Stale(available_entities) = {}
            /\ Stale(configured_entities) = {}

\* The reconnect handler returns with this step: its load ends (or it had
\* nothing to await).
C27_HandlerCompletes ==
    /\ co_lpc'["reconn"] = "idle"
    /\ \/ co_lpc["reconn"] # "idle"
       \/ CoReconnected

\* C27: the reconnect handler marks the session active, makes the
\* configured host in memory and in the file the session's current host
\* while the user name and the password stay as they were, and runs the
\* account-data load again; when it completes, the entity callbacks have
\* been notified, also after a failed load.
C27_ReconnectEffects ==
    /\ [][CoReconnected =>
             /\ co_connected'
             /\ config_mem'.host = co_host'
             /\ config_disk'.host = co_host'
             /\ config_mem'.username = config_mem.username
             /\ config_mem'.password = config_mem.password
             /\ config_disk'.username = config_disk.username
             /\ config_disk'.password = config_disk.password
             /\ co_loads' = co_loads + 1]_vars
    /\ [][C27_HandlerCompletes => co_notified' = Callbacks']_vars

\* C28: a "players changed" event, whatever ids it reports, leaves the
\* registered players and remotes, the readiness flag and the account-data
\* cache as they are, schedules no re-sync and starts no initialization
\* attempt.
C28_PlayersChangedInert ==
    [][(\E ids \in ReportedIds : CoControllerEvent("players", ids)) =>
          UNCHANGED <<media_players, remotes, available_entities,
                      configured_entities, entities_ready, co_cache, co_task,
                      co_timer, co_loads, co_lpc, gen, coordinator, pc>>]_vars

\* The callbacks have been notified while the session has been connected
\* throughout, no load has run since the first one and no re-sync was ever
\* scheduled: only a "players changed" event notifies in this way.
C28_Witness ==
    /\ co_notified # {}
    /\ co_connected
    /\ co_heos
    /\ co_down = "no"
    /\ co_loads = 1
    /\ co_task = "none"
    /\ entities_ready

\* C31: a run of notify_entities invokes every registered callback exactly
\* once, in registration order, whichever of them raise.
C31_FanOut == nf_done => nf_log = nf_callbacks

\* A run in which the first of several callbacks raised and the later ones
\* were invoked.
C31_Witness ==
    /\ nf_done
    /\ Len(nf_callbacks) > 1
    /\ nf_callbacks[1] \in nf_raising
    /\ Len(nf_log) = Len(nf_callbacks)

\* C32: once the readiness flag is true it stays true, whatever happens
\* (disconnects, cleared configuration, reconfiguration, further triggers),
\* and no later call of _initialize_entities starts an attempt or touches
\* the coordinator or the registered entities.
C32_ReadyIsMonotonic ==
    [][entities_ready =>
          /\ entities_ready'
          /\ gen' = gen
          /\ coordinator' = coordinator
          /\ UNCHANGED <<media_players, remotes, available_entities,
                         configured_entities, sessions>>]_vars

\* The flag is true although the configuration has since been cleared by a
\* reconfiguration and the host has disconnected.
C32_Witness ==
    /\ entities_ready
    /\ config_mem = None
    /\ device_state = "DISCONNECTED"
    /\ pc["setup"] = "idle"
    /\ setup_state = "heos_setup"

\* C33: at most one coordinator session is alive at any time: when an
\* attempt creates its coordinator, those of the earlier attempts have been
\* shut down.
C33_OneSession ==
    /\ Cardinality(sessions) <= 1
    /\ \A t \in Tasks : pc[t] = "setup" => sessions = {gen}

\* C34: the account-data loads of one coordinator never overlap (the load
\* of the reconnect handler and a debounced re-sync are never both inside
\* their fetches), and a re-sync that has started fetching is never
\* cancelled by a new debounce request.
C34_LoadsExclusive ==
    /\ [](co_lpc["reconn"] = "idle" \/ co_lpc["deb"] = "idle")
    /\ [][co_task = "syncing" /\ co_lpc["deb"] # "idle" =>
             co_task' # "sleeping"]_vars

\* C35: whenever no load is in progress, the source list is the names of
\* the cached music sources flagged available, followed by the names of
\* the cached favorites, inputs and playlists.
C35_SourceListConsistent ==
    sl_pc = "idle" =>
        sl_list = AvailableNames(sl_music) \o sl_favorites \o sl_inputs
                    \o sl_playlists

\* C36: a reconfiguration that ends without success (the probe failed, the
\* sign-in was rejected or the user aborted) leaves the stored
\* configuration as it was before the request, so an account is still
\* stored in memory and on disk.
C36_FailedReconfigurationKeepsConfig ==
    [][(/\ setup_cleared
        /\ \/ SetupAbort
           \/ SetupCleaned /\ pc["setup"] = "cleanup_error")
         => (config_mem' # None /\ config_disk' # None)]_vars

\* C36 as amended: a reconfiguration request clears the credentials in
\* memory at once; a flow that then fails or is aborted neither restores
\* nor writes anything: those steps leave memory and disk as they are.
C36_ReconfigurationClearsFirst ==
    /\ [][SetupRequest /\ setup_cleared' => config_mem' = None]_vars
    /\ [][(\/ SetupAbort
           \/ SetupProbeFails
           \/ SetupCleaned /\ pc["setup"] = "cleanup_error")
            => UNCHANGED <<config_mem, config_disk>>]_vars

\* The probe of a reconfiguration has failed and no credentials are left in
\* memory.
C36_Witness ==
    /\ pc["setup"] = "cleanup_error"
    /\ setup_cleared
    /\ config_mem = None

\* C37: a user-data response that answers no outstanding credentials
\* request (none was made yet, or the flow has completed, failed or been
\* aborted since) returns a setup error, opens no probe session and leaves
\* the stored configuration as it is.
C37_StrayResponseRejected ==
    [][(WzUserData /\ ~wz_outstanding) =>
          /\ wz_action' = "SetupError"
          /\ wz_pc' = "idle"
          /\ wz_probes' = wz_probes
          /\ UNCHANGED <<wz_mem, wz_disk>>]_vars

(***************************************************************************)
(* Entity identifiers of one attempt (media_player.py:47, remote.py:25,    *)
(* driver.py:96-107, 133-163): the account reports a device name per       *)
(* player; every player gets a Player entity and, with more than one       *)
(* player, a Remote entity, each registered under the id built from the    *)
(* name.                                                                   *)
(***************************************************************************)
\* Device names an account may report.
DeviceNames == {PlayerName(i) : i \in 1..(NumPlayers + 3)}

\* A named entity: its kind, its player and the id its constructor built.
NamedEntity(kind, p, name) ==
    [kind |-> kind, pid |-> p,
     id |-> IF kind = "player" THEN MediaPlayerIdOf(name) ELSE RemoteIdOf(name)]

\* api.available_entities.add(entity): refused when the id is stored.
NmRegister(coll, e) ==
    IF e.id \in DOMAIN coll THEN coll ELSE coll @@ (e.id :> e)

\* driver.py:97-105: one pass of the media player loop.
NmCreatePlayer ==
    /\ nm_pc = "players"
    /\ nm_available' =
           NmRegister(nm_available,
                      NamedEntity("player", nm_next, nm_names[nm_next]))
    /\ nm_built' = nm_built + 1
    /\ IF nm_next < NumPlayers
       THEN /\ nm_next' = nm_next + 1
            /\ nm_pc' = "players"
       ELSE /\ nm_next' = 1
            /\ nm_pc' = IF NumPlayers > 1 THEN "remotes" ELSE "done"
    /\ UNCHANGED <<nm_names, nm_cmd, nm_group>>
    /\ UNCHANGED <<drvVars, coVars, cfVars, enVars, rbVars, nfVars, slVars, wzVars>>

\* driver.py:133-163: one pass of the Remote loop.
NmCreateRemote ==
    /\ nm_pc = "remotes"
    /\ nm_available' =
           NmRegister(nm_available,
                      NamedEntity("remote", nm_next, nm_names[nm_next]))
    /\ nm_built' = nm_built + 1
    /\ IF nm_next < NumPlayers
       THEN /\ nm_next' = nm_next + 1
            /\ nm_pc' = "remotes"
       ELSE /\ nm_next' = 0
            /\ nm_pc' = "done"
    /\ UNCHANGED <<nm_names, nm_cmd, nm_group>>
    /\ UNCHANGED <<drvVars, coVars, cfVars, enVars, rbVars, nfVars, slVars, wzVars>>

\* _handle_grouping_commands_with_retry (remote.py:557-575): the players of
\* the session are gone through in the order of the dict (the order of the
\* enumeration, from player p on) and the first whose normalised name is the
\* command's argument is the target.
RECURSIVE FindTarget(_, _, _)
FindTarget(p, names, target_name) ==
    IF p > NumPlayers
    THEN 0
    ELSE IF GroupName(names[p]) = target_name
         THEN p
         ELSE FindTarget(p + 1, names, target_name)

\* The player ids passed to set_group, or none when no device is found.
HandleGroupingCommand(self, command, names) ==
    LET target_player_id == FindTarget(1, names, command[2])
    IN  IF target_player_id # 0 THEN <<self, target_player_id>> ELSE <<>>

\* The host sends the remote of player self the grouping command that the
\* builder emitted for the other player x (driver.py:286-289).
NmGroupWith ==
    /\ nm_pc = "done"
    /\ nm_cmd = <<>>
    /\ \E self \in AllPlayers : \E x \in AllPlayers \ {self} :
          LET command == <<"GROUP_WITH_", GroupName(nm_names[x])>>
          IN  /\ nm_cmd' = <<self, x, command>>
              /\ nm_group' = HandleGroupingCommand(self, command, nm_names)
    /\ UNCHANGED <<nm_names, nm_available, nm_built, nm_pc, nm_next>>
    /\ UNCHANGED <<drvVars, coVars, cfVars, enVars, rbVars, nfVars, slVars, wzVars>>

\* The players are enumerated (driver.py:86) and the collections are empty
\* (driver.py:54).
NmInit ==
    /\ DrvInit
    /\ CoNew
    /\ CfNew
    /\ EnNew
    /\ RbNew
    /\ NfNew
    /\ SlNew
    /\ WzNew
    /\ nm_names \in [AllPlayers -> DeviceNames]
    /\ nm_available = <<>>
    /\ nm_built = 0
    /\ nm_pc = "players"
    /\ nm_next = 1
    /\ nm_cmd = <<>>
    /\ nm_group = <<>>

NmNext == NmCreatePlayer \/ NmCreateRemote \/ NmGroupWith

NamingSpec == NmInit /\ [][NmNext]_vars

\* C38: players with different player ids get different Player entity ids
\* and different Remote entity ids, and once the attempt has built its
\* entities the host holds as many entities as were constructed.
C38_DistinctEntityIds ==
    nm_pc = "done" =>
        /\ \A p, q \in AllPlayers :
               p # q => /\ MediaPlayerIdOf(nm_names[p]) # MediaPlayerIdOf(nm_names[q])
                        /\ RemoteIdOf(nm_names[p]) # RemoteIdOf(nm_names[q])
        /\ Cardinality(DOMAIN nm_available) = nm_built

\* C39: every command in the list the builder gave the remote is taken by
\* a branch of handle_cmd: none ends in NOT_IMPLEMENTED.
C39_AdvertisedCommandsHandled ==
    rb_handled # <<>> => rb_handled[2] # "NOT_IMPLEMENTED"

\* C40: the command GROUP_WITH_<name of X> that the builder emitted for
\* another player X makes the remote call set_group with its own player
\* first and X second.
C40_GroupingRoundTrip ==
    nm_cmd # <<>> => nm_group = <<nm_cmd[1], nm_cmd[2]>>

====
